---------------------------- MODULE Spec2Model ----------------------------
(***************************************************************************)
(* A model of the virtual filesystem adapter S3FS (internal/vfs/s3fs.go)   *)
(* and of the object store client it drives (internal/storage/s3client.go).*)
(*                                                                         *)
(* Strings (paths, object keys) are sequences of one-character strings, so *)
(* that prefix tests, trimming and concatenation are computed as the code  *)
(* computes them.  File and object contents are sequences of bytes.        *)
(* Every callback of S3FS is a small state machine run by a worker thread: *)
(* one step per critical section of fs.mu and one step per blocking call   *)
(* (store call or staging-file operation).                                 *)
(***************************************************************************)
EXTENDS Integers, Sequences, FiniteSets, TLC

(***************************************************************************)
(* Bounds of the model.                                                    *)
(***************************************************************************)
MaxCalls == 3
SeqCalls == 3
RenameCalls == 1
ReaddirCalls == 2
HandleCalls == 2
MaxOfst == 2
MaxBlen == 2
MaxTime == 2

\* The worker threads of the driver host
Threads == {1, 2}

(***************************************************************************)
(* Program constants.                                                      *)
(***************************************************************************)
ListCacheTTL == 2
StatfsCacheTTL == 30
ENOENT == 2
EIO == 5
EBADF == 9
ENOSYS == 38
ENOTEMPTY == 39

\* The zero time.Time: always older than any TTL.  The clock starts late
\* enough that "now - ZeroTime" exceeds both TTLs.
ZeroTime == 0
StartTime == ZeroTime + StatfsCacheTTL

(***************************************************************************)
(* Strings.                                                                *)
(***************************************************************************)
Slash == <<"/">>

Min(a, b) == IF a < b THEN a ELSE b
Max(a, b) == IF a > b THEN a ELSE b

\* strings.HasPrefix
HasPrefix(s, p) == Len(p) <= Len(s) /\ SubSeq(s, 1, Len(p)) = p

\* strings.TrimPrefix
TrimPrefix(s, p) == IF HasPrefix(s, p) THEN SubSeq(s, Len(p) + 1, Len(s)) ELSE s

\* strings.Index(s, "/"): 0-based index of the first "/", -1 if none
IndexSlash(s) ==
    IF \E i \in 1..Len(s) : s[i] = "/"
    THEN (CHOOSE i \in 1..Len(s) : s[i] = "/" /\ \A j \in 1..(i - 1) : s[j] # "/") - 1
    ELSE -1

\* Byte value of a character (the store lists keys in byte order).
CharOrd(c) ==
    CASE c = "/" -> 47
      [] c = "a" -> 97
      [] c = "b" -> 98
      [] c = "c" -> 99
      [] c = "x" -> 120
      [] c = "y" -> 121
      [] OTHER -> 122

\* Byte-wise lexicographic order on keys.
KeyLess(a, b) ==
    \E i \in 1..(Min(Len(a), Len(b)) + 1) :
        /\ \A j \in 1..(i - 1) : a[j] = b[j]
        /\ \/ i > Len(a) /\ i <= Len(b)
           \/ i <= Len(a) /\ i <= Len(b) /\ CharOrd(a[i]) < CharOrd(b[i])

\* The i-th key of S in that order
NthKey(S, i) == CHOOSE k \in S : Cardinality({j \in S : KeyLess(j, k)}) = i - 1

(***************************************************************************)
(* The object store: a function from the keys present to their contents.   *)
(***************************************************************************)
EmptyStore == [k \in {} |-> <<>>]

\* PutObject (UploadFile, UploadData)
PutObject(st, key, data) ==
    [k \in (DOMAIN st) \cup {key} |-> IF k = key THEN data ELSE st[k]]

\* DeleteObject: deleting an absent key succeeds and changes nothing
DeleteObject(st, key) == [k \in (DOMAIN st) \ {key} |-> st[k]]

\* CopyObject (server side); defined when the source exists
CopyObject(st, src, dst) == PutObject(st, dst, st[src])

\* ObjectInfo of one key
ObjectInfo(st, key) ==
    [Key |-> key, Size |-> Len(st[key]),
     IsDir |-> Len(key) > 0 /\ key[Len(key)] = "/"]

\* ListObjects: every key with the prefix, recursive, in key order
ListObjects(st, prefix) ==
    LET keys == {k \in DOMAIN st : HasPrefix(k, prefix)}
    IN [i \in 1..Cardinality(keys) |-> ObjectInfo(st, NthKey(keys, i))]

(***************************************************************************)
(* Path resolution over a listing (pure parts of Getattr and Readdir).     *)
(***************************************************************************)
NoStat == [mode |-> "none", size |-> 0]
DirStat == [mode |-> "dir", size |-> 0]
RegStat(n) == [mode |-> "reg", size |-> n]

\* Getattr, after the listing was obtained: exact match first, then
\* implicit directory, then ENOENT.
GetattrResolve(objects, path) ==
    LET exact == {i \in 1..Len(objects) :
                    LET objPath == TrimPrefix(objects[i].Key, Slash)
                    IN objPath = path \/ objPath = path \o Slash}
        pathPrefix == path \o Slash
    IN IF exact # {}
       THEN LET obj == objects[CHOOSE i \in exact : \A j \in exact : i <= j]
            IN [ret |-> 0,
                stat |-> IF obj.IsDir THEN DirStat ELSE RegStat(obj.Size)]
       ELSE IF \E i \in 1..Len(objects) : HasPrefix(objects[i].Key, pathPrefix)
       THEN [ret |-> 0, stat |-> DirStat]
       ELSE [ret |-> -ENOENT, stat |-> NoStat]

\* One filled directory entry
DirEntry(name, isDir, size) == [name |-> name, isDir |-> isDir, size |-> size]

\* Readdir's loop over the listing from index i on; seen is the set of names
\* already emitted.
RECURSIVE ReaddirFill(_, _, _, _)
ReaddirFill(objects, i, prefix, seen) ==
    IF i > Len(objects) THEN <<>>
    ELSE LET obj == objects[i]
             objKey == TrimPrefix(obj.Key, Slash)
             skipPrefix == prefix # <<>> /\ ~HasPrefix(objKey, prefix)
             relativePath == IF prefix # <<>> THEN TrimPrefix(objKey, prefix) ELSE objKey
             idx == IndexSlash(relativePath)
             name == IF idx > 0 THEN SubSeq(relativePath, 1, idx) ELSE relativePath
             isDir == IF idx > 0 THEN TRUE ELSE obj.IsDir
         IN IF skipPrefix \/ relativePath = <<>> \/ relativePath = Slash \/ name \in seen
            THEN ReaddirFill(objects, i + 1, prefix, seen)
            ELSE <<DirEntry(name, isDir, IF isDir THEN 0 ELSE obj.Size)>>
                   \o ReaddirFill(objects, i + 1, prefix, seen \cup {name})

\* Readdir, after the listing was obtained
ReaddirEntries(objects, path) ==
    <<DirEntry(<<".">>, TRUE, 0), DirEntry(<<".", ".">>, TRUE, 0)>>
      \o ReaddirFill(objects, 1, IF path # <<>> THEN path \o Slash ELSE <<>>, {})

(***************************************************************************)
(* Capacity (pure parts of Statfs).                                        *)
(***************************************************************************)
BlockSize == 4096

\* 10 GiB of headroom in blocks: (10 * 1024 * 1024 * 1024) / 4096, computed
\* in KiB to stay within 32-bit integers
AvailableBlocks == (10 * 1024 * 1024) \div (BlockSize \div 1024)

Statfs_t(bsize, blocks, bfree, files, ffree) ==
    [Bsize |-> bsize, Frsize |-> bsize, Blocks |-> blocks, Bfree |-> bfree,
     Bavail |-> bfree, Files |-> files, Ffree |-> ffree, Favail |-> ffree,
     Namemax |-> 255]

\* A Statfs_t not filled in: the zero value, every field 0
ZeroStatfs == [Statfs_t(0, 0, 0, 0, 0) EXCEPT !.Namemax = 0]

\* The values Statfs gives when the listing fails
SyntheticStatfs == Statfs_t(4096, 1000000000, 500000000, 1000000, 1000000)

\* Sum of the sizes, and count, of the listed objects that are not
\* directory markers, from index i on
RECURSIVE TotalSize(_, _)
TotalSize(objects, i) ==
    IF i > Len(objects) THEN 0
    ELSE (IF objects[i].IsDir THEN 0 ELSE objects[i].Size) + TotalSize(objects, i + 1)

FileCount(objects) == Cardinality({i \in 1..Len(objects) : ~objects[i].IsDir})

\* (faulty variant of ComputeStatfs: a partly used block is not counted)
ComputeStatfsFloor(objects) ==
    Statfs_t(BlockSize, (TotalSize(objects, 1) \div BlockSize) + AvailableBlocks,
             AvailableBlocks, FileCount(objects) + 100000, 100000)

\* The Statfs_t computed from a listing
ComputeStatfs(objects) ==
    LET totalSize == TotalSize(objects, 1)
        usedBlocks == (totalSize \div BlockSize)
                        + (IF totalSize % BlockSize # 0 THEN 1 ELSE 0)
    IN Statfs_t(BlockSize, usedBlocks + AvailableBlocks, AvailableBlocks,
                FileCount(objects) + 100000, 100000)

(***************************************************************************)
(* State.                                                                  *)
(***************************************************************************)
VARIABLES
    store,            \* the bucket: key -> content
    storeVer,         \* history: number of successful store mutations so far
    listCache,        \* fs.listCache; <<>> is the nil slice
    listCacheTime,    \* fs.listCacheTime
    listCacheVer,     \* history: storeVer when the cached listing was read
    listCacheRead,    \* history: the time when the cached listing was read
    statfsCache,      \* fs.statfsCache: <<>> is nil, <<s>> points to s
    statfsCacheTime,  \* fs.statfsCacheTime
    statfsCacheRead,  \* history: the time when the cached snapshot's listing was read
    openFiles,        \* fs.openFiles: handle -> OpenFile
    nextFh,           \* fs.nextFh
    hist,             \* history per handle: initial staging content and writes
    tempFiles,        \* staging files on disk: handle number -> content
    mu,               \* fs.mu: the writer holding it (0: none) and the readers
    now,              \* the clock (seconds)
    cb,               \* per worker thread: the callback it runs
    retVer,           \* history: newest mutation whose callback has returned
    budget,           \* number of callbacks that may still start
    track             \* history: frames record the state and the callback before them

storeVars == <<store, storeVer>>
cacheVars == <<listCache, listCacheTime, listCacheVer, listCacheRead, statfsCache,
               statfsCacheTime, statfsCacheRead>>
handleVars == <<openFiles, nextFh, hist>>
vars == <<store, storeVer, listCache, listCacheTime, listCacheVer, listCacheRead,
          statfsCache, statfsCacheTime, statfsCacheRead, openFiles, nextFh, hist, tempFiles, mu, now, cb,
          retVer, budget, track>>

\* A nil slice / nil pointer
Nil == <<>>

\* The callbacks after whose successful return a lookup must see the mutation
MutatingOps == {"Flush", "Release", "Unlink", "Mkdir", "Rmdir", "Rename"}

\* The frame of a thread that runs no callback
\* History: no record of the adapter's state
NoSnap ==
    [openFiles |-> <<>>, tempFiles |-> <<>>, nextFh |-> 0, listCache |-> <<>>,
     listCacheTime |-> 0, statfsCache |-> <<>>, statfsCacheTime |-> 0]

Idle ==
    [op |-> "none", pc |-> "idle",
     path |-> <<>>, path2 |-> <<>>, fh |-> 0, buff |-> <<>>, blen |-> 0, ofst |-> 0,
     size |-> 0,
     ret |-> 0, stat |-> NoStat, statfs |-> ZeroStatfs, data |-> <<>>, entries |-> <<>>,
     fhOut |-> 0,
     tempFile |-> 0, fd |-> 0, filePath |-> <<>>, objects |-> <<>>, files |-> <<>>, i |-> 0,
     gStart |-> 0, gListVer |-> -1, gMutVer |-> 0, gSizes |-> {}, gListed |-> FALSE,
     gFail |-> FALSE, gPre |-> EmptyStore, gCopied |-> {}, gDeleted |-> {},
     gPrev |-> [op |-> "none", path |-> <<>>, ret |-> 0, hot |-> FALSE, fh |-> 0,
                size |-> 0, fresh |-> [op |-> "none", path |-> <<>>, absent |-> FALSE]],
     gHot |-> FALSE,
     gCalls |-> 0, gSnap |-> NoSnap, gReadAt |-> 0, gAge |-> -1]

\* NewS3FS on a bucket holding st, with the open-handle table, the handle
\* histories and the staging files given
InitHandles(st, of, hs, tf, calls, tr) ==
    /\ store = st
    /\ storeVer = 0
    /\ listCache = Nil
    /\ listCacheTime = ZeroTime
    /\ listCacheVer = 0
    /\ listCacheRead = ZeroTime
    /\ statfsCache = Nil
    /\ statfsCacheTime = ZeroTime
    /\ statfsCacheRead = ZeroTime
    /\ openFiles = of
    /\ nextFh = Cardinality(DOMAIN of) + 1
    /\ hist = hs
    /\ tempFiles = tf
    /\ mu = [writer |-> 0, readers |-> {}]
    /\ now = StartTime
    /\ cb = [t \in Threads |-> Idle]
    /\ retVer = 0
    /\ budget = calls
    /\ track = tr

\* NewS3FS, on a bucket holding st
InitWith(st, calls, tr) == InitHandles(st, <<>>, <<>>, <<>>, calls, tr)

\* NewS3FS on a bucket holding st, after Create(path) and a Write of data at
\* offset 0 on the new handle have returned: handle 1 is open and dirty
InitDirty(st, path, data, calls, tr) ==
    InitHandles(st,
                <<[Path |-> path, Size |-> Len(data), Dirty |-> TRUE]>>,
                <<[init |-> <<>>, writes |-> <<[ofst |-> 0, buff |-> data, ok |-> TRUE]>>]>>,
                <<data>>, calls, tr)

\* NewS3FS on a bucket holding st, after an Open for writing of path has
\* returned whose staging file got data: handle 1 is open and clean
InitOpen(st, path, data, calls, tr) ==
    InitHandles(st,
                <<[Path |-> path, Size |-> Len(data), Dirty |-> FALSE]>>,
                <<[init |-> data, writes |-> <<>>]>>,
                <<data>>, calls, tr)

\* As InitHandles, after a Getattr and a Statfs have then returned at the
\* start time: both caches hold what the bucket holds
InitWarm(st, of, hs, tf, calls, tr) ==
    /\ store = st
    /\ storeVer = 0
    /\ listCache = ListObjects(st, <<>>)
    /\ listCacheTime = StartTime
    /\ listCacheVer = 0
    /\ statfsCache = <<ComputeStatfs(ListObjects(st, <<>>))>>
    /\ statfsCacheTime = StartTime
    /\ listCacheRead = StartTime
    /\ statfsCacheRead = StartTime
    /\ openFiles = of
    /\ nextFh = Cardinality(DOMAIN of) + 1
    /\ hist = hs
    /\ tempFiles = tf
    /\ mu = [writer |-> 0, readers |-> {}]
    /\ now = StartTime
    /\ cb = [t \in Threads |-> Idle]
    /\ retVer = 0
    /\ budget = calls
    /\ track = tr

\* sync.RWMutex: RLock and Lock can be taken
CanRLock == mu.writer = 0
CanLock == mu.writer = 0 /\ mu.readers = {}

\* A thread may start a callback
Callable(t) == cb[t].pc \in {"idle", "done"} /\ budget > 0

\* The listing cache would be used by a lookup that starts now
CacheValid == listCache # Nil /\ now - listCacheTime < ListCacheTTL

\* History: the adapter's state now
Snap ==
    [openFiles |-> openFiles, tempFiles |-> tempFiles, nextFh |-> nextFh,
     listCache |-> listCache, listCacheTime |-> listCacheTime,
     statfsCache |-> statfsCache, statfsCacheTime |-> statfsCacheTime]

\* The frame of a callback that starts now
Frame(op, pc) ==
    [Idle EXCEPT !.op = op, !.pc = pc, !.gStart = retVer,
                 !.gPre = IF track THEN store ELSE EmptyStore,
                 !.gHot = track /\ CacheValid,
                 !.gSnap = IF track THEN Snap ELSE NoSnap]

\* History: the callback with frame f issues one more store call
Called(f) == [f EXCEPT !.gCalls = @ + 1]

\* History: f is the frame of a Release of a handle that was in the table
\* and that the callback before it, a Create or an Open for writing, had
\* returned
ReleasedFresh(f) ==
    /\ f.op = "Release"
    /\ f.tempFile # 0
    /\ f.gPrev.op \in {"Create", "Open"}
    /\ f.gPrev.ret = 0
    /\ f.gPrev.fh = f.fh

\* History: the bucket st holds nothing that Getattr finds at path: no key
\* that is path or path + "/" (a key is compared with one leading "/"
\* dropped), and no key under path + "/"
Absent(st, path) ==
    \A k \in DOMAIN st :
        /\ TrimPrefix(k, Slash) # path
        /\ TrimPrefix(k, Slash) # path \o Slash
        /\ ~HasPrefix(k, path \o Slash)

\* History: what the frame f of a returned callback hands on about a handle
\* released unwritten.  After a Release that directly followed the Create
\* or the Open for writing of its handle: that callback, its path, and
\* whether the path did not exist when that callback started.  After a
\* Create or an Open: whether its path did not exist when it started, that
\* is, the bucket held nothing for it and no other handle was open on it.
Fresh(f) ==
    IF ReleasedFresh(f)
    THEN [op |-> f.gPrev.op, path |-> f.gPrev.path, absent |-> f.gPrev.fresh.absent]
    ELSE [op |-> "none", path |-> <<>>,
          absent |-> /\ f.op \in {"Create", "Open"}
                     /\ Absent(f.gPre, f.path)
                     /\ \A h \in (DOMAIN openFiles) \ {f.fh} : openFiles[h].Path # f.path]

\* History: the callback the thread ran before the one that starts with f
After(t, f) ==
    IF track
    THEN [f EXCEPT !.gPrev = [op |-> cb[t].op, path |-> cb[t].path, ret |-> cb[t].ret,
                              hot |-> cb[t].gHot, fh |-> cb[t].fh, size |-> cb[t].size,
                              fresh |-> Fresh(cb[t])]]
    ELSE f

Start(t, f) ==
    /\ Callable(t)
    /\ cb' = [cb EXCEPT ![t] = After(t, f)]
    /\ budget' = budget - 1
    /\ UNCHANGED <<retVer, track>>

\* The callback of t continues with frame f
Goto(t, f) ==
    /\ cb' = [cb EXCEPT ![t] = f]
    /\ UNCHANGED <<retVer, budget, track>>

\* The callback of t returns with frame f
Return(t, f) ==
    /\ cb' = [cb EXCEPT ![t] = [f EXCEPT !.pc = "done"]]
    /\ retVer' = IF f.op \in MutatingOps /\ f.ret = 0 THEN Max(retVer, f.gMutVer) ELSE retVer
    /\ UNCHANGED <<budget, track>>

\* A callback that returns at once
StartReturn(t, f) ==
    /\ Callable(t)
    /\ cb' = [cb EXCEPT ![t] = [After(t, f) EXCEPT !.pc = "done"]]
    /\ budget' = budget - 1
    /\ UNCHANGED <<retVer, track>>

(***************************************************************************)
(* The clock.                                                              *)
(***************************************************************************)
Tick ==
    /\ now < StartTime + MaxTime
    /\ now' = now + 1
    /\ UNCHANGED <<storeVars, cacheVars, handleVars, tempFiles, mu, cb, retVer, budget, track>>

(***************************************************************************)
(* invalidateCaches and getListObjects.                                    *)
(***************************************************************************)
\* (faulty variant of invalidateCaches: the listing cache is left alone)
InvalidateStatfsOnly(t) ==
    /\ cb[t].pc = "invalidate"
    /\ CanLock
    /\ statfsCache' = Nil
    /\ statfsCacheRead' = ZeroTime
    /\ UNCHANGED <<listCache, listCacheTime, listCacheVer, listCacheRead, statfsCacheTime>>
    /\ IF cb[t].op = "Release"
       THEN Goto(t, [cb[t] EXCEPT !.pc = "rel_remove"])
       ELSE Return(t, [cb[t] EXCEPT !.ret = 0])
    /\ UNCHANGED <<storeVars, handleVars, tempFiles, mu, now>>

\* invalidateCaches: the last step of a successful mutating callback
InvalidateCaches(t) ==
    /\ cb[t].pc = "invalidate"
    /\ CanLock
    /\ statfsCache' = Nil
    /\ listCache' = Nil
    /\ listCacheTime' = ZeroTime
    /\ listCacheRead' = ZeroTime
    /\ statfsCacheRead' = ZeroTime
    /\ UNCHANGED <<listCacheVer, statfsCacheTime>>
    /\ IF cb[t].op = "Release"
       THEN Goto(t, [cb[t] EXCEPT !.pc = "rel_remove"])
       ELSE Return(t, [cb[t] EXCEPT !.ret = 0])
    /\ UNCHANGED <<storeVars, handleVars, tempFiles, mu, now>>

\* What Getattr and Readdir do with the listing
Resolved(f, objects) ==
    IF f.op = "Getattr"
    THEN LET r == GetattrResolve(objects, f.path)
         IN [f EXCEPT !.objects = objects, !.ret = r.ret, !.stat = r.stat]
    ELSE [f EXCEPT !.objects = objects, !.ret = 0,
                   !.entries = ReaddirEntries(objects, f.path)]

\* getListObjects, first critical section: the cached listing if still valid
GetListObjectsCheck(t) ==
    /\ cb[t].pc = "glo_check"
    /\ CanRLock
    /\ IF CacheValid
       THEN Return(t, Resolved([cb[t] EXCEPT !.gListVer = listCacheVer,
                                             !.gAge = now - listCacheRead], listCache))
       ELSE Goto(t, [cb[t] EXCEPT !.pc = "glo_fetch"])
    /\ UNCHANGED <<storeVars, cacheVars, handleVars, tempFiles, mu, now>>

\* (faulty variant of getListObjects: a failed fetch stores an empty listing)
GetListObjectsFetchStoresEmpty(t) ==
    /\ cb[t].pc = "glo_fetch"
    /\ \E ok \in BOOLEAN :
         IF ok
         THEN /\ Goto(t, [Called(cb[t]) EXCEPT !.pc = "glo_store", !.gListed = TRUE,
                                               !.objects = ListObjects(store, <<>>),
                                               !.gListVer = storeVer, !.gReadAt = now])
              /\ UNCHANGED cacheVars
         ELSE /\ Return(t, [Called(cb[t]) EXCEPT !.ret = -ENOENT, !.gListed = TRUE,
                                                 !.gFail = TRUE])
              /\ listCache' = Nil
              /\ listCacheTime' = now
              /\ UNCHANGED <<listCacheVer, listCacheRead, statfsCache, statfsCacheTime,
                             statfsCacheRead>>
    /\ UNCHANGED <<storeVars, handleVars, tempFiles, mu, now>>

\* getListObjects, the store call (outside the lock); the callers turn an
\* error into -ENOENT
GetListObjectsFetch(t) ==
    /\ cb[t].pc = "glo_fetch"
    /\ \E ok \in BOOLEAN :
         IF ok
         THEN Goto(t, [Called(cb[t]) EXCEPT !.pc = "glo_store", !.gListed = TRUE,
                                            !.objects = ListObjects(store, <<>>),
                                            !.gListVer = storeVer, !.gReadAt = now])
         ELSE Return(t, [Called(cb[t]) EXCEPT !.ret = -ENOENT, !.gListed = TRUE,
                                              !.gFail = TRUE])
    /\ UNCHANGED <<storeVars, cacheVars, handleVars, tempFiles, mu, now>>

\* getListObjects, second critical section: install the listing
GetListObjectsStore(t) ==
    /\ cb[t].pc = "glo_store"
    /\ CanLock
    /\ listCache' = cb[t].objects
    /\ listCacheTime' = now
    /\ listCacheVer' = cb[t].gListVer
    /\ listCacheRead' = cb[t].gReadAt
    /\ Return(t, Resolved(cb[t], cb[t].objects))
    /\ UNCHANGED <<storeVars, statfsCache, statfsCacheTime, statfsCacheRead, handleVars,
                   tempFiles, mu, now>>

(***************************************************************************)
(* Getattr and Readdir.                                                    *)
(***************************************************************************)
\* The handles open on a path
HandlesOnIfDirty(path) ==
    {h \in DOMAIN openFiles : openFiles[h].Path = path /\ openFiles[h].Dirty}

HandlesOn(path) == {h \in DOMAIN openFiles : openFiles[h].Path = path}

\* History: the sizes of the handles open on a path
SizesOn(path) == {openFiles[h].Size : h \in {k \in DOMAIN openFiles : openFiles[k].Path = path}}

\* Getattr: the root, else the scan of fs.openFiles under RLock (the map
\* iteration may meet any of the handles open on the path first)
Getattr(t, p) ==
    LET path == TrimPrefix(p, Slash)
        f == [Frame("Getattr", "glo_check") EXCEPT !.path = path, !.gSizes = SizesOn(path)]
    IN /\ IF path = <<>>
          THEN StartReturn(t, [f EXCEPT !.ret = 0, !.stat = DirStat])
          ELSE /\ CanRLock
               /\ IF HandlesOn(path) # {}
                  THEN \E h \in HandlesOn(path) :
                         StartReturn(t, [f EXCEPT !.ret = 0,
                                                  !.stat = RegStat(openFiles[h].Size)])
                  ELSE Start(t, f)
       /\ UNCHANGED <<storeVars, cacheVars, handleVars, tempFiles, mu, now>>

Readdir(t, p) ==
    /\ Start(t, [Frame("Readdir", "glo_check") EXCEPT !.path = TrimPrefix(p, Slash)])
    /\ UNCHANGED <<storeVars, cacheVars, handleVars, tempFiles, mu, now>>

(***************************************************************************)
(* Statfs.                                                                 *)
(***************************************************************************)
\* The capacity cache would be used by a Statfs that starts now
StatfsCacheValid == statfsCache # Nil /\ now - statfsCacheTime < StatfsCacheTTL

\* Statfs, first critical section: the cached snapshot if still valid
Statfs(t) ==
    LET f == Frame("Statfs", "statfs_list")
    IN /\ CanRLock
       /\ IF StatfsCacheValid
          THEN StartReturn(t, [f EXCEPT !.ret = 0, !.statfs = statfsCache[1],
                                        !.gAge = now - statfsCacheRead])
          ELSE Start(t, f)
       /\ UNCHANGED <<storeVars, cacheVars, handleVars, tempFiles, mu, now>>

\* (faulty variant of Statfs: a failed listing is returned as an error)
StatfsListPropagates(t) ==
    /\ cb[t].pc = "statfs_list"
    /\ \E ok \in BOOLEAN :
         IF ok
         THEN Goto(t, [Called(cb[t]) EXCEPT !.pc = "statfs_store", !.gListed = TRUE,
                                    !.gListVer = storeVer, !.gReadAt = now,
                                    !.objects = ListObjects(store, <<>>),
                                    !.statfs = ComputeStatfs(ListObjects(store, <<>>))])
         ELSE Return(t, [Called(cb[t]) EXCEPT !.ret = -EIO, !.gListed = TRUE,
                                              !.gFail = TRUE])
    /\ UNCHANGED <<storeVars, cacheVars, handleVars, tempFiles, mu, now>>

\* Statfs: the listing of the whole bucket (outside the lock) and the
\* snapshot computed from it; on an error the fixed values, not cached
StatfsList(t) ==
    /\ cb[t].pc = "statfs_list"
    /\ \E ok \in BOOLEAN :
         IF ok
         THEN Goto(t, [Called(cb[t]) EXCEPT !.pc = "statfs_store", !.gListed = TRUE,
                                    !.gListVer = storeVer, !.gReadAt = now,
                                    !.objects = ListObjects(store, <<>>),
                                    !.statfs = ComputeStatfs(ListObjects(store, <<>>))])
         ELSE Return(t, [Called(cb[t]) EXCEPT !.ret = 0, !.statfs = SyntheticStatfs,
                                      !.gListed = TRUE, !.gFail = TRUE])
    /\ UNCHANGED <<storeVars, cacheVars, handleVars, tempFiles, mu, now>>

\* Statfs, second critical section: the snapshot goes into the cache
StatfsStore(t) ==
    /\ cb[t].pc = "statfs_store"
    /\ CanLock
    /\ statfsCache' = <<cb[t].statfs>>
    /\ statfsCacheTime' = now
    /\ statfsCacheRead' = cb[t].gReadAt
    /\ Return(t, [cb[t] EXCEPT !.ret = 0])
    /\ UNCHANGED <<storeVars, listCache, listCacheTime, listCacheVer, listCacheRead,
                   handleVars, tempFiles, mu, now>>

\* Statfs between its listing and its second critical section, the listing
\* held in the frame: the snapshot computed from it
StatfsCompute(t) ==
    /\ cb[t].pc = "statfs_compute"
    /\ Goto(t, [cb[t] EXCEPT !.pc = "statfs_store",
                             !.statfs = ComputeStatfs(cb[t].objects)])
    /\ UNCHANGED <<storeVars, cacheVars, handleVars, tempFiles, mu, now>>

(***************************************************************************)
(* Unlink, Mkdir, Rmdir.                                                   *)
(***************************************************************************)
\* A store mutation by t succeeded
Mutated(f) == [f EXCEPT !.gMutVer = storeVer + 1]

\* (faulty variant of Unlink: the object is deleted although the call failed)
UnlinkDeletesAnyway(t, p) ==
    LET f == Called([Frame("Unlink", "unlink") EXCEPT !.path = TrimPrefix(p, Slash)])
    IN /\ \E ok \in BOOLEAN :
            IF ok
            THEN /\ store' = DeleteObject(store, f.path)
                 /\ storeVer' = storeVer + 1
                 /\ Start(t, [Mutated(f) EXCEPT !.pc = "invalidate"])
            ELSE /\ StartReturn(t, [f EXCEPT !.ret = -EIO, !.gFail = TRUE])
                 /\ store' = DeleteObject(store, f.path)
                 /\ storeVer' = storeVer + 1
       /\ UNCHANGED <<cacheVars, handleVars, tempFiles, mu, now>>

Unlink(t, p) ==
    LET f == Called([Frame("Unlink", "unlink") EXCEPT !.path = TrimPrefix(p, Slash)])
    IN /\ \E ok \in BOOLEAN :
            IF ok
            THEN /\ store' = DeleteObject(store, f.path)
                 /\ storeVer' = storeVer + 1
                 /\ Start(t, [Mutated(f) EXCEPT !.pc = "invalidate"])
            ELSE /\ StartReturn(t, [f EXCEPT !.ret = -EIO, !.gFail = TRUE])
                 /\ UNCHANGED storeVars
       /\ UNCHANGED <<cacheVars, handleVars, tempFiles, mu, now>>

Mkdir(t, p) ==
    LET f == Called([Frame("Mkdir", "mkdir") EXCEPT !.path = TrimPrefix(p, Slash)])
    IN /\ \E ok \in BOOLEAN :
            IF ok
            THEN /\ store' = PutObject(store, f.path \o Slash, <<>>)
                 /\ storeVer' = storeVer + 1
                 /\ Start(t, [Mutated(f) EXCEPT !.pc = "invalidate"])
            ELSE /\ StartReturn(t, [f EXCEPT !.ret = -EIO, !.gFail = TRUE])
                 /\ UNCHANGED storeVars
       /\ UNCHANGED <<cacheVars, handleVars, tempFiles, mu, now>>

\* Rmdir: the listing of path + "/"; ENOTEMPTY if it returns anything
Rmdir(t, p) ==
    LET f == Called([Frame("Rmdir", "rmdir_delete") EXCEPT !.path = TrimPrefix(p, Slash)])
    IN /\ Callable(t)
       /\ \E ok \in BOOLEAN :
            IF ok
            THEN LET objects == ListObjects(store, f.path \o Slash)
                 IN IF Len(objects) > 0
                    THEN StartReturn(t, [f EXCEPT !.ret = -ENOTEMPTY, !.objects = objects])
                    ELSE Start(t, f)
            ELSE StartReturn(t, [f EXCEPT !.ret = -EIO, !.gFail = TRUE])
       /\ UNCHANGED <<storeVars, cacheVars, handleVars, tempFiles, mu, now>>

\* Rmdir: delete the marker, ignoring the result
RmdirDelete(t) ==
    /\ cb[t].pc = "rmdir_delete"
    /\ \E ok \in BOOLEAN :
         IF ok
         THEN /\ store' = DeleteObject(store, cb[t].path \o Slash)
              /\ storeVer' = storeVer + 1
              /\ Goto(t, [Called(Mutated(cb[t])) EXCEPT !.pc = "invalidate"])
         ELSE /\ Goto(t, [Called(cb[t]) EXCEPT !.pc = "invalidate", !.gFail = TRUE])
              /\ UNCHANGED storeVars
    /\ UNCHANGED <<cacheVars, handleVars, tempFiles, mu, now>>

(***************************************************************************)
(* Staging files.                                                          *)
(***************************************************************************)
\* The file exists
Exists(files, name) == name \in DOMAIN files

\* Create or replace a file
FilePut(files, name, data) ==
    [n \in (DOMAIN files) \cup {name} |-> IF n = name THEN data ELSE files[n]]

\* os.Remove
FileRemove(files, name) == [n \in (DOMAIN files) \ {name} |-> files[n]]

\* A thread other than t has the file called name open (cb[u].fd is the
\* file the callback of u has open, 0 for none; a file that was removed
\* while it was open has no name any more and is called -name here)
OpenElsewhere(t, name) == \E u \in Threads \ {t} : cb[u].fd = name

\* f.Close() of the file the callback of t has open: a removed file goes
\* with its last descriptor
Closed(files, t) ==
    IF cb[t].fd < 0 /\ ~OpenElsewhere(t, cb[t].fd) THEN FileRemove(files, cb[t].fd)
    ELSE files

\* n zero bytes
Zeros(n) == [i \in 1..n |-> 0]

\* (faulty variant of WriteAt: the bytes after the written range are dropped)
WriteAtTruncating(content, buff, ofst) ==
    IF Len(buff) = 0 THEN content
    ELSE LET padded == IF ofst > Len(content)
                       THEN content \o Zeros(ofst - Len(content))
                       ELSE content
         IN SubSeq(padded, 1, ofst) \o buff

\* File.WriteAt: an empty buffer writes nothing; a write past the end
\* leaves a hole that reads as zeros
WriteAt(content, buff, ofst) ==
    IF Len(buff) = 0 THEN content
    ELSE LET padded == IF ofst > Len(content)
                       THEN content \o Zeros(ofst - Len(content))
                       ELSE content
         IN SubSeq(padded, 1, ofst) \o buff
              \o SubSeq(content, ofst + Len(buff) + 1, Len(content))

\* io.CopyN(io.Discard, reader, n): the stream without its first n bytes
Discard(stream, n) == SubSeq(stream, n + 1, Len(stream))

\* io.ReadFull(reader, buff): as many bytes as the buffer holds, or the
\* rest of the stream if it is shorter
ReadFull(stream, blen) == SubSeq(stream, 1, Min(blen, Len(stream)))

(***************************************************************************)
(* Open, Create.                                                           *)
(***************************************************************************)
OpenFile(path, size, dirty) == [Path |-> path, Size |-> size, Dirty |-> dirty]

\* fs.openFiles[fh] = &OpenFile{...}
Register(fh, of) ==
    [h \in (DOMAIN openFiles) \cup {fh} |-> IF h = fh THEN of ELSE openFiles[h]]

\* The history of a new handle whose staging file holds data
NewHist(fh, data) ==
    [h \in (DOMAIN hist) \cup {fh} |->
        IF h = fh THEN [init |-> data, writes |-> <<>>] ELSE hist[h]]

\* (faulty variant of OpenRead: the call is entered in the table as handle 0)
OpenReadRegistered(t, p) ==
    /\ StartReturn(t, [Frame("Open", "open") EXCEPT !.path = TrimPrefix(p, Slash),
                                                    !.ret = 0, !.fhOut = 0])
    /\ openFiles' = [h \in (DOMAIN openFiles) \cup {0} |->
                       IF h = 0 THEN OpenFile(TrimPrefix(p, Slash), 0, FALSE)
                       ELSE openFiles[h]]
    /\ UNCHANGED <<storeVars, cacheVars, nextFh, hist, tempFiles, mu, now>>

\* Open for reading: no handle
OpenRead(t, p) ==
    /\ StartReturn(t, [Frame("Open", "open") EXCEPT !.path = TrimPrefix(p, Slash),
                                                    !.ret = 0, !.fhOut = 0])
    /\ UNCHANGED <<storeVars, cacheVars, handleVars, tempFiles, mu, now>>

\* Open for writing: takes the lock and allocates the handle number
OpenWrite(t, p) ==
    /\ CanLock
    /\ mu' = [mu EXCEPT !.writer = t]
    /\ nextFh' = nextFh + 1
    /\ Start(t, [Frame("Open", "open_get") EXCEPT !.path = TrimPrefix(p, Slash),
                                                  !.fh = nextFh])
    /\ UNCHANGED <<storeVars, cacheVars, openFiles, hist, tempFiles, now>>

\* (faulty variant of Open: it returns without releasing the lock)
OpenGetKeepsLock(t) ==
    /\ cb[t].pc = "open_get"
    /\ mu.writer = t
    /\ \E created \in BOOLEAN :
         LET f == Called(cb[t])
         IN /\ tempFiles' = IF created THEN FilePut(tempFiles, f.fh, <<>>)
                            ELSE tempFiles
            /\ openFiles' = Register(f.fh, OpenFile(f.path, 0, FALSE))
            /\ hist' = NewHist(f.fh, <<>>)
            /\ Return(t, [f EXCEPT !.ret = 0, !.fhOut = f.fh, !.gFail = TRUE])
    /\ UNCHANGED <<storeVars, cacheVars, nextFh, mu, now>>

\* Open for writing, still under the lock: GetObject, the staging file,
\* the table entry.  The object's body is streamed into the staging file and
\* the result of io.Copy is dropped, so the copy may stop after any number
\* n of bytes while Size is the object's full length; when os.Create fails
\* there is no staging file and Size stays 0.
OpenGet(t) ==
    /\ cb[t].pc = "open_get"
    /\ mu.writer = t
    /\ \E ok \in BOOLEAN, created \in BOOLEAN :
         LET f == Called(cb[t])
             got == ok /\ f.path \in DOMAIN store
             object == IF got THEN store[f.path] ELSE <<>>
         IN \E n \in 0..Len(object) :
              LET data == SubSeq(object, 1, n)
                  fileSize == IF created THEN Len(object) ELSE 0
              IN /\ tempFiles' = IF created THEN FilePut(tempFiles, f.fh, data)
                                 ELSE tempFiles
                 /\ openFiles' = Register(f.fh, OpenFile(f.path, fileSize, FALSE))
                 /\ hist' = NewHist(f.fh, IF created THEN data ELSE <<>>)
                 /\ Return(t, [f EXCEPT !.ret = 0, !.fhOut = f.fh, !.gFail = ~got])
    /\ mu' = [mu EXCEPT !.writer = 0]
    /\ UNCHANGED <<storeVars, cacheVars, nextFh, now>>

\* (faulty variant of Create: the lowest number not in the table is taken)
CreateLowest(t, p) ==
    LET fh == CHOOSE h \in 1..nextFh :
                  h \notin DOMAIN openFiles /\ \A g \in 1..(h - 1) : g \in DOMAIN openFiles
        f == [Frame("Create", "create") EXCEPT !.path = TrimPrefix(p, Slash), !.fh = fh]
    IN /\ CanLock
       /\ nextFh' = IF fh = nextFh THEN nextFh + 1 ELSE nextFh
       /\ \E ok \in BOOLEAN :
            IF ok
            THEN /\ tempFiles' = FilePut(tempFiles, f.fh, <<>>)
                 /\ openFiles' = Register(f.fh, OpenFile(f.path, 0, FALSE))
                 /\ hist' = NewHist(f.fh, <<>>)
                 /\ StartReturn(t, [f EXCEPT !.ret = 0, !.fhOut = f.fh])
            ELSE /\ StartReturn(t, [f EXCEPT !.ret = -EIO, !.fhOut = -1])
                 /\ UNCHANGED <<tempFiles, openFiles, hist>>
       /\ UNCHANGED <<storeVars, cacheVars, mu, now>>

\* (faulty variant of Create: an object at the path is staged, as Open does)
CreateStaging(t, p) ==
    LET f == [Frame("Create", "create") EXCEPT !.path = TrimPrefix(p, Slash), !.fh = nextFh]
        data == IF f.path \in DOMAIN store THEN store[f.path] ELSE <<>>
    IN /\ CanLock
       /\ nextFh' = nextFh + 1
       /\ \E ok \in BOOLEAN :
            IF ok
            THEN /\ tempFiles' = FilePut(tempFiles, f.fh, data)
                 /\ openFiles' = Register(f.fh, OpenFile(f.path, Len(data), FALSE))
                 /\ hist' = NewHist(f.fh, data)
                 /\ StartReturn(t, [Called(f) EXCEPT !.ret = 0, !.fhOut = f.fh])
            ELSE /\ StartReturn(t, [f EXCEPT !.ret = -EIO, !.fhOut = -1])
                 /\ UNCHANGED <<tempFiles, openFiles, hist>>
       /\ UNCHANGED <<storeVars, cacheVars, mu, now>>

\* Create: one critical section; os.Create may fail
Create(t, p) ==
    LET f == [Frame("Create", "create") EXCEPT !.path = TrimPrefix(p, Slash), !.fh = nextFh]
    IN /\ CanLock
       /\ nextFh' = nextFh + 1
       /\ \E ok \in BOOLEAN :
            IF ok
            THEN /\ tempFiles' = FilePut(tempFiles, f.fh, <<>>)
                 /\ openFiles' = Register(f.fh, OpenFile(f.path, 0, FALSE))
                 /\ hist' = NewHist(f.fh, <<>>)
                 /\ StartReturn(t, [f EXCEPT !.ret = 0, !.fhOut = f.fh])
            ELSE /\ StartReturn(t, [f EXCEPT !.ret = -EIO, !.fhOut = -1])
                 /\ UNCHANGED <<tempFiles, openFiles, hist>>
       /\ UNCHANGED <<storeVars, cacheVars, mu, now>>

(***************************************************************************)
(* Write.                                                                  *)
(***************************************************************************)
\* Write, first critical section: look the handle up
Write(t, p, buff, ofst, fh) ==
    LET f == [Frame("Write", "write_open") EXCEPT !.path = TrimPrefix(p, Slash),
                  !.buff = buff, !.ofst = ofst, !.fh = fh]
    IN /\ CanRLock
       /\ IF fh \notin DOMAIN openFiles
          THEN StartReturn(t, [f EXCEPT !.ret = -EBADF])
          ELSE Start(t, [f EXCEPT !.tempFile = fh])
       /\ UNCHANGED <<storeVars, cacheVars, handleVars, tempFiles, mu, now>>

\* Write: OpenFile(O_RDWR|O_CREATE) creates the staging file when it is
\* absent; the lock is not held
WriteOpen(t) ==
    /\ cb[t].pc = "write_open"
    /\ \E ok \in BOOLEAN :
         LET f == cb[t]
         IN IF ok
            THEN /\ tempFiles' = IF Exists(tempFiles, f.tempFile) THEN tempFiles
                                 ELSE FilePut(tempFiles, f.tempFile, <<>>)
                 /\ Goto(t, [f EXCEPT !.pc = "write_file", !.fd = f.tempFile])
            ELSE /\ Return(t, [f EXCEPT !.ret = -EIO])
                 /\ UNCHANGED tempFiles
    /\ UNCHANGED <<storeVars, cacheVars, handleVars, mu, now>>

\* Write: f.WriteAt on the open file, which loops over pwrite with no lock
\* held: each step writes the next m bytes of the buffer (i of them are
\* written already), and a pwrite that fails ends the loop with what was
\* written before it left in the file.  An empty buffer writes nothing and
\* cannot fail.  On the error Write returns -EIO, closing the file on its
\* way out.
WriteFile(t) ==
    /\ cb[t].pc = "write_file"
    /\ LET f == cb[t]
           rest == Len(f.buff) - f.i
           Record(n, ok) ==
               [h \in DOMAIN hist |->
                  IF h = f.fd
                  THEN [hist[h] EXCEPT !.writes =
                          Append(@, [ofst |-> f.ofst, buff |-> SubSeq(f.buff, 1, n), ok |-> ok])]
                  ELSE hist[h]]
       IN IF rest = 0
          THEN /\ hist' = Record(0, TRUE)
               /\ Goto(t, [f EXCEPT !.pc = "write_size"])
               /\ UNCHANGED tempFiles
          ELSE \E m \in 0..rest :
                 IF m = 0
                 THEN /\ hist' = IF f.i > 0 THEN Record(f.i, FALSE) ELSE hist
                      /\ Goto(t, [f EXCEPT !.pc = "write_close", !.ret = -EIO])
                      /\ UNCHANGED tempFiles
                 ELSE /\ tempFiles' =
                           FilePut(tempFiles, f.fd,
                                   WriteAt(tempFiles[f.fd],
                                           SubSeq(f.buff, f.i + 1, f.i + m), f.ofst + f.i))
                      /\ hist' = IF m = rest THEN Record(Len(f.buff), TRUE) ELSE hist
                      /\ Goto(t, [f EXCEPT !.i = f.i + m,
                                           !.pc = IF m = rest THEN "write_size"
                                                  ELSE "write_file"])
    /\ UNCHANGED <<storeVars, cacheVars, openFiles, nextFh, mu, now>>

\* (faulty variant of WriteSize: the size is set to the end of this write)
WriteSizeLast(t) ==
    /\ cb[t].pc = "write_size"
    /\ CanLock
    /\ LET f == cb[t]
           newSize == f.ofst + Len(f.buff)
       IN /\ openFiles' = [h \in DOMAIN openFiles |->
                             IF h = f.fh
                             THEN [openFiles[h] EXCEPT !.Size = newSize, !.Dirty = TRUE]
                             ELSE openFiles[h]]
          /\ Goto(t, [f EXCEPT !.pc = "write_close", !.ret = Len(f.buff)])
    /\ UNCHANGED <<storeVars, cacheVars, nextFh, hist, tempFiles, mu, now>>

\* Write, second critical section: the size and the dirty flag
WriteSize(t) ==
    /\ cb[t].pc = "write_size"
    /\ CanLock
    /\ LET f == cb[t]
           newSize == f.ofst + Len(f.buff)
       IN /\ openFiles' = [h \in DOMAIN openFiles |->
                             IF h = f.fh
                             THEN [openFiles[h] EXCEPT
                                     !.Size = IF newSize > @ THEN newSize ELSE @,
                                     !.Dirty = TRUE]
                             ELSE openFiles[h]]
          /\ Goto(t, [f EXCEPT !.pc = "write_close", !.ret = Len(f.buff)])
    /\ UNCHANGED <<storeVars, cacheVars, nextFh, hist, tempFiles, mu, now>>

\* Write returns: the deferred f.Close() runs, after the lock was released
WriteClose(t) ==
    /\ cb[t].pc = "write_close"
    /\ tempFiles' = Closed(tempFiles, t)
    /\ Return(t, [cb[t] EXCEPT !.fd = 0, !.i = 0])
    /\ UNCHANGED <<storeVars, cacheVars, handleVars, mu, now>>

(***************************************************************************)
(* Truncate.                                                               *)
(***************************************************************************)
\* ^uint64(0): the call carries no handle
NoFh == -1

\* os.Truncate: the first size bytes, zero-filled when the file was shorter
Resize(content, size) ==
    [i \in 1..size |-> IF i <= Len(content) THEN content[i] ELSE 0]

\* (faulty variant of Truncate: the handle is not looked up in the table)
TruncateUnchecked(t, p, size, fh) ==
    LET f == [Frame("Truncate", "trunc_file") EXCEPT !.path = TrimPrefix(p, Slash),
                  !.size = size, !.fh = fh]
    IN /\ IF fh # NoFh
          THEN /\ CanRLock
               /\ Start(t, [f EXCEPT !.tempFile = fh])
          ELSE IF size = 0
               THEN Start(t, [f EXCEPT !.pc = "trunc_put"])
               ELSE StartReturn(t, [f EXCEPT !.ret = -ENOSYS])
       /\ UNCHANGED <<storeVars, cacheVars, handleVars, tempFiles, mu, now>>

\* Truncate.  With a handle: first critical section, look the handle up.
\* Without one: size 0 goes on to the put, any other size is unsupported.
Truncate(t, p, size, fh) ==
    LET f == [Frame("Truncate", "trunc_file") EXCEPT !.path = TrimPrefix(p, Slash),
                  !.size = size, !.fh = fh]
    IN /\ IF fh # NoFh
          THEN /\ CanRLock
               /\ IF fh \notin DOMAIN openFiles
                  THEN StartReturn(t, [f EXCEPT !.ret = -EBADF])
                  ELSE Start(t, [f EXCEPT !.tempFile = fh])
          ELSE IF size = 0
               THEN Start(t, [f EXCEPT !.pc = "trunc_put"])
               ELSE StartReturn(t, [f EXCEPT !.ret = -ENOSYS])
       /\ UNCHANGED <<storeVars, cacheVars, handleVars, tempFiles, mu, now>>

\* (faulty variant of TruncFile: the staging file is never made shorter)
TruncFileGrowOnly(t) ==
    /\ cb[t].pc = "trunc_file"
    /\ \E ok \in BOOLEAN :
         LET f == cb[t]
         IN IF ok /\ Exists(tempFiles, f.tempFile)
            THEN LET data == IF f.size < Len(tempFiles[f.tempFile])
                             THEN tempFiles[f.tempFile]
                             ELSE Resize(tempFiles[f.tempFile], f.size)
                 IN /\ tempFiles' = FilePut(tempFiles, f.tempFile, data)
                    /\ hist' = [h \in DOMAIN hist |->
                                  IF h = f.fh THEN [init |-> data, writes |-> <<>>]
                                  ELSE hist[h]]
                    /\ Goto(t, [f EXCEPT !.pc = "trunc_size"])
            ELSE /\ Return(t, [f EXCEPT !.ret = -EIO])
                 /\ UNCHANGED <<tempFiles, hist>>
    /\ UNCHANGED <<storeVars, cacheVars, openFiles, nextFh, mu, now>>

\* Truncate with a handle: os.Truncate on the staging file, which must
\* exist.  The handle's history starts again from the resized content.
TruncFile(t) ==
    /\ cb[t].pc = "trunc_file"
    /\ \E ok \in BOOLEAN :
         LET f == cb[t]
         IN IF ok /\ Exists(tempFiles, f.tempFile)
            THEN LET data == Resize(tempFiles[f.tempFile], f.size)
                 IN /\ tempFiles' = FilePut(tempFiles, f.tempFile, data)
                    /\ hist' = [h \in DOMAIN hist |->
                                  IF h = f.fh THEN [init |-> data, writes |-> <<>>]
                                  ELSE hist[h]]
                    /\ Goto(t, [f EXCEPT !.pc = "trunc_size"])
            ELSE /\ Return(t, [f EXCEPT !.ret = -EIO])
                 /\ UNCHANGED <<tempFiles, hist>>
    /\ UNCHANGED <<storeVars, cacheVars, openFiles, nextFh, mu, now>>

\* Truncate with a handle, second critical section: the size and the dirty
\* flag
TruncSize(t) ==
    /\ cb[t].pc = "trunc_size"
    /\ CanLock
    /\ LET f == cb[t]
       IN /\ openFiles' = [h \in DOMAIN openFiles |->
                             IF h = f.fh
                             THEN [openFiles[h] EXCEPT !.Size = f.size, !.Dirty = TRUE]
                             ELSE openFiles[h]]
          /\ Return(t, [f EXCEPT !.ret = 0])
    /\ UNCHANGED <<storeVars, cacheVars, nextFh, hist, tempFiles, mu, now>>

\* (faulty variant of TruncPut: an object that is absent is not created)
TruncPutExisting(t) ==
    /\ cb[t].pc = "trunc_put"
    /\ \E ok \in BOOLEAN :
         LET f == Called(cb[t])
         IN IF ok
            THEN /\ store' = IF f.path \in DOMAIN store THEN PutObject(store, f.path, <<>>)
                             ELSE store
                 /\ storeVer' = storeVer + 1
                 /\ Return(t, [Mutated(f) EXCEPT !.ret = 0])
            ELSE /\ Return(t, [f EXCEPT !.ret = -EIO, !.gFail = TRUE])
                 /\ UNCHANGED storeVars
    /\ UNCHANGED <<cacheVars, handleVars, tempFiles, mu, now>>

\* Truncate to 0 without a handle: UploadData of no bytes at the path; the
\* caches stay as they are
TruncPut(t) ==
    /\ cb[t].pc = "trunc_put"
    /\ \E ok \in BOOLEAN :
         LET f == Called(cb[t])
         IN IF ok
            THEN /\ store' = PutObject(store, f.path, <<>>)
                 /\ storeVer' = storeVer + 1
                 /\ Return(t, [Mutated(f) EXCEPT !.ret = 0])
            ELSE /\ Return(t, [f EXCEPT !.ret = -EIO, !.gFail = TRUE])
                 /\ UNCHANGED storeVars
    /\ UNCHANGED <<cacheVars, handleVars, tempFiles, mu, now>>

(***************************************************************************)
(* Flush, Release.                                                         *)
(***************************************************************************)
\* Flush has something to upload
NeedsFlush(fh) == fh \in DOMAIN openFiles /\ openFiles[fh].Dirty

\* (faulty variant of Flush: a clean handle is uploaded too)
FlushClean(t, p, fh) ==
    LET f == [Frame("Flush", "flush_upload") EXCEPT !.path = TrimPrefix(p, Slash), !.fh = fh]
    IN /\ CanLock
       /\ IF fh \in DOMAIN openFiles
          THEN Start(t, [f EXCEPT !.filePath = openFiles[fh].Path])
          ELSE StartReturn(t, [f EXCEPT !.ret = 0])
       /\ UNCHANGED <<storeVars, cacheVars, handleVars, tempFiles, mu, now>>

\* (faulty variant of Flush: the upload goes to the path argument)
FlushToArgument(t, p, fh) ==
    LET f == [Frame("Flush", "flush_upload") EXCEPT !.path = TrimPrefix(p, Slash), !.fh = fh]
    IN /\ CanLock
       /\ IF NeedsFlush(fh)
          THEN Start(t, [f EXCEPT !.filePath = f.path])
          ELSE StartReturn(t, [f EXCEPT !.ret = 0])
       /\ UNCHANGED <<storeVars, cacheVars, handleVars, tempFiles, mu, now>>

\* Flush, first critical section
Flush(t, p, fh) ==
    LET f == [Frame("Flush", "flush_upload") EXCEPT !.path = TrimPrefix(p, Slash), !.fh = fh]
    IN /\ CanLock
       /\ IF NeedsFlush(fh)
          THEN Start(t, [f EXCEPT !.filePath = openFiles[fh].Path])
          ELSE StartReturn(t, [f EXCEPT !.ret = 0])
       /\ UNCHANGED <<storeVars, cacheVars, handleVars, tempFiles, mu, now>>

\* Flush: UploadFile opens the staging file, the Body of the put, whose
\* length is the file's length now; it fails without a store call if the
\* file cannot be opened.  The lock is not held.
FlushUpload(t) ==
    /\ cb[t].pc = "flush_upload"
    /\ \E ok \in BOOLEAN :
         LET f == cb[t]
         IN IF ok /\ Exists(tempFiles, f.fh)
            THEN Goto(t, [f EXCEPT !.pc = IF Len(tempFiles[f.fh]) = 0 THEN "flush_put"
                                          ELSE "flush_read",
                                   !.fd = f.fh, !.size = Len(tempFiles[f.fh]),
                                   !.data = <<>>])
            ELSE IF f.op = "Release"
                 THEN Goto(t, [f EXCEPT !.pc = "rel_remove", !.gFail = TRUE])
                 ELSE Return(t, [f EXCEPT !.ret = -EIO, !.gFail = TRUE])
    /\ UNCHANGED <<storeVars, cacheVars, handleVars, tempFiles, mu, now>>

\* Flush: PutObject reads the Body from the open file while the request is
\* sent, one block (here: one byte) at a time, so a block holds what the
\* file holds when it is read.  When the file has become shorter than the
\* length announced the request fails.
FlushRead(t) ==
    /\ cb[t].pc = "flush_read"
    /\ LET f == cb[t]
           file == tempFiles[f.fd]
           pos == Len(f.data) + 1
       IN IF pos <= Len(file)
          THEN /\ Goto(t, [f EXCEPT !.data = Append(@, file[pos]),
                                    !.pc = IF pos = f.size THEN "flush_put"
                                           ELSE "flush_read"])
               /\ UNCHANGED tempFiles
          ELSE /\ Goto(t, [Called(f) EXCEPT !.pc = "flush_close", !.size = 0,
                                            !.data = <<>>, !.gFail = TRUE])
               /\ UNCHANGED tempFiles
    /\ UNCHANGED <<storeVars, cacheVars, handleVars, mu, now>>

\* (faulty variant of FlushPut: a failed put is tried once more)
FlushPutRetry(t) ==
    /\ cb[t].pc = "flush_put"
    /\ \E ok \in BOOLEAN :
         LET f == [Called(cb[t]) EXCEPT !.pc = "flush_close", !.size = 0, !.data = <<>>]
         IN IF ok
            THEN /\ store' = PutObject(store, f.filePath, cb[t].data)
                 /\ storeVer' = storeVer + 1
                 /\ Goto(t, Mutated(f))
            ELSE /\ Goto(t, [Called(f) EXCEPT !.gFail = TRUE])
                 /\ UNCHANGED storeVars
    /\ UNCHANGED <<cacheVars, handleVars, tempFiles, mu, now>>

\* Flush: the put completes and stores what was read at the handle's path,
\* or fails
FlushPut(t) ==
    /\ cb[t].pc = "flush_put"
    /\ \E ok \in BOOLEAN :
         LET f == [Called(cb[t]) EXCEPT !.pc = "flush_close", !.size = 0, !.data = <<>>]
         IN IF ok
            THEN /\ store' = PutObject(store, f.filePath, cb[t].data)
                 /\ storeVer' = storeVer + 1
                 /\ Goto(t, Mutated(f))
            ELSE /\ Goto(t, [f EXCEPT !.gFail = TRUE])
                 /\ UNCHANGED storeVars
    /\ UNCHANGED <<cacheVars, handleVars, tempFiles, mu, now>>

\* Flush: UploadFile returns and its deferred file.Close() runs; on its
\* error Flush returns -EIO, and Release goes on after a failed Flush
FlushClose(t) ==
    /\ cb[t].pc = "flush_close"
    /\ tempFiles' = Closed(tempFiles, t)
    /\ LET f == [cb[t] EXCEPT !.fd = 0]
       IN IF ~f.gFail
          THEN Goto(t, [f EXCEPT !.pc = "flush_clear"])
          ELSE IF f.op = "Release"
               THEN Goto(t, [f EXCEPT !.pc = "rel_remove"])
               ELSE Return(t, [f EXCEPT !.ret = -EIO])
    /\ UNCHANGED <<storeVars, cacheVars, handleVars, mu, now>>

\* Flush, second critical section: the handle is clean
FlushClear(t) ==
    /\ cb[t].pc = "flush_clear"
    /\ CanLock
    /\ openFiles' = [h \in DOMAIN openFiles |->
                       IF h = cb[t].fh THEN [openFiles[h] EXCEPT !.Dirty = FALSE]
                       ELSE openFiles[h]]
    /\ Goto(t, [cb[t] EXCEPT !.pc = "invalidate"])
    /\ UNCHANGED <<storeVars, cacheVars, nextFh, hist, tempFiles, mu, now>>

\* Release, first critical section: remember the staging file
Release(t, p, fh) ==
    /\ CanRLock
    /\ Start(t, [Frame("Release", "rel_flush") EXCEPT !.path = p, !.fh = fh,
                   !.tempFile = IF fh \in DOMAIN openFiles THEN fh ELSE 0])
    /\ UNCHANGED <<storeVars, cacheVars, handleVars, tempFiles, mu, now>>

\* (faulty variant of Release: the Flush inside uploads a clean handle too)
ReleaseFlushAlways(t) ==
    /\ cb[t].pc = "rel_flush"
    /\ CanLock
    /\ IF cb[t].fh \in DOMAIN openFiles
       THEN Goto(t, [cb[t] EXCEPT !.pc = "flush_upload",
                                  !.filePath = openFiles[cb[t].fh].Path])
       ELSE Goto(t, [cb[t] EXCEPT !.pc = "rel_remove"])
    /\ UNCHANGED <<storeVars, cacheVars, handleVars, tempFiles, mu, now>>

\* Release: the first critical section of the Flush it calls
ReleaseFlush(t) ==
    /\ cb[t].pc = "rel_flush"
    /\ CanLock
    /\ IF NeedsFlush(cb[t].fh)
       THEN Goto(t, [cb[t] EXCEPT !.pc = "flush_upload",
                                  !.filePath = openFiles[cb[t].fh].Path])
       ELSE Goto(t, [cb[t] EXCEPT !.pc = "rel_remove"])
    /\ UNCHANGED <<storeVars, cacheVars, handleVars, tempFiles, mu, now>>

\* Release: os.Remove of the staging file; its result is dropped, so when it
\* fails (as it does on Windows while the file is open) the file stays.
\* When it removes a file that another thread has open, that thread goes on
\* with the file, which has no name any more.
ReleaseRemove(t) ==
    /\ cb[t].pc = "rel_remove"
    /\ \E removed \in BOOLEAN :
         LET name == cb[t].tempFile
             f == [cb[t] EXCEPT !.pc = "rel_delete"]
         IN IF name # 0 /\ removed /\ Exists(tempFiles, name)
            THEN IF OpenElsewhere(t, name)
                 THEN /\ tempFiles' = FileRemove(FilePut(tempFiles, -name, tempFiles[name]),
                                                 name)
                      /\ cb' = [u \in Threads |->
                                  IF u = t THEN f
                                  ELSE IF cb[u].fd = name THEN [cb[u] EXCEPT !.fd = -name]
                                  ELSE cb[u]]
                      /\ UNCHANGED <<retVer, budget, track>>
                 ELSE /\ tempFiles' = FileRemove(tempFiles, name)
                      /\ Goto(t, f)
            ELSE /\ UNCHANGED tempFiles
                 /\ Goto(t, f)
    /\ UNCHANGED <<storeVars, cacheVars, handleVars, mu, now>>

\* Release, last critical section: delete(fs.openFiles, fh)
ReleaseDelete(t) ==
    /\ cb[t].pc = "rel_delete"
    /\ CanLock
    /\ openFiles' = [h \in (DOMAIN openFiles) \ {cb[t].fh} |-> openFiles[h]]
    /\ hist' = [h \in (DOMAIN hist) \ {cb[t].fh} |-> hist[h]]
    /\ Return(t, [cb[t] EXCEPT !.ret = 0])
    /\ UNCHANGED <<storeVars, cacheVars, nextFh, tempFiles, mu, now>>

\* Read once GetObject has answered: the body delivers cut bytes and then
\* breaks (cut past the end: it does not break), with an early end
\* (io.EOF, io.ErrUnexpectedEOF) if early and with another error otherwise.
\* Any error of io.CopyN is -EIO; io.ReadFull with an empty buffer reads
\* nothing; an early end in io.ReadFull is let through, so the bytes read so
\* far are returned as a successful read.
ReadObject(content, blen, ofst, cut, early) ==
    IF ofst >= Len(content) THEN [ret |-> 0, data |-> <<>>]
    ELSE IF ofst > 0 /\ cut < ofst THEN [ret |-> -EIO, data |-> <<>>]
    ELSE IF cut < Min(ofst + blen, Len(content) + 1)
         THEN IF early
              THEN LET data == SubSeq(content, ofst + 1, Min(cut, Len(content)))
                   IN [ret |-> Len(data), data |-> data]
              ELSE [ret |-> -EIO, data |-> <<>>]
    ELSE LET data == ReadFull(IF ofst > 0 THEN Discard(content, ofst) ELSE content, blen)
         IN [ret |-> Len(data), data |-> data]

\* Read: GetObject fails if the key is absent or the store fails
Read(t, p, blen, ofst) ==
    LET f == Called([Frame("Read", "read") EXCEPT !.path = TrimPrefix(p, Slash),
                                                  !.blen = blen, !.ofst = ofst])
    IN /\ Callable(t)
       /\ \E ok \in BOOLEAN :
            IF ok /\ f.path \in DOMAIN store
            THEN \E cut \in 0..(Len(store[f.path]) + 1), early \in BOOLEAN :
                    LET r == ReadObject(store[f.path], blen, ofst, cut, early)
                    IN StartReturn(t, [f EXCEPT !.ret = r.ret, !.data = r.data,
                                                !.gFail = (r.ret < 0)])
            ELSE StartReturn(t, [f EXCEPT !.ret = -EIO, !.gFail = TRUE])
       /\ UNCHANGED <<storeVars, cacheVars, handleVars, tempFiles, mu, now>>

(***************************************************************************)
(* Rename.                                                                 *)
(***************************************************************************)
\* 1-based position of the first occurrence of from in s (0 if none)
FirstOccurrence(s, from) ==
    LET at == {i \in 1..(Len(s) - Len(from) + 1) : SubSeq(s, i, i + Len(from) - 1) = from}
    IN IF at = {} THEN 0 ELSE CHOOSE i \in at : \A j \in at : i <= j

\* strings.Replace(s, from, to, 1)
Replace1(s, from, to) ==
    LET i == FirstOccurrence(s, from)
    IN IF i = 0 THEN s
       ELSE SubSeq(s, 1, i - 1) \o to \o SubSeq(s, i + Len(from), Len(s))

\* The key a moved key is copied to
NewKey(oldKey, oldpath, newpath) == Replace1(oldKey, oldpath \o Slash, newpath \o Slash)

\* The listing has the marker oldpath + "/"
IsDirMarked(objects, oldpath) ==
    \E i \in 1..Len(objects) : objects[i].Key = oldpath \o Slash

\* filesToMove: the listed keys that start with oldpath + "/", in listing order
RECURSIVE FilesToMove(_, _, _)
FilesToMove(objects, i, oldpath) ==
    IF i > Len(objects) THEN <<>>
    ELSE (IF HasPrefix(objects[i].Key, oldpath \o Slash) THEN <<objects[i].Key>> ELSE <<>>)
           \o FilesToMove(objects, i + 1, oldpath)

\* Rename: the listing of the whole bucket decides between the directory
\* and the plain-file branch
Rename(t, o, n) ==
    LET f == Called([Frame("Rename", "ren_copy") EXCEPT !.path = TrimPrefix(o, Slash),
                                                        !.path2 = TrimPrefix(n, Slash)])
    IN /\ Callable(t)
       /\ \E ok \in BOOLEAN :
            IF ok
            THEN \E objects \in {ListObjects(store, <<>>)} :
                 \E files \in {FilesToMove(objects, 1, f.path)} :
                    LET g == [f EXCEPT !.objects = objects, !.files = files, !.i = 1]
                    IN IF IsDirMarked(objects, f.path) \/ Len(files) > 0
                       THEN Start(t, [g EXCEPT !.pc = IF Len(files) = 0 THEN "ren_marker"
                                                      ELSE "ren_copy"])
                       ELSE Start(t, [g EXCEPT !.pc = "ren_fcopy"])
            ELSE StartReturn(t, [f EXCEPT !.ret = -EIO, !.gFail = TRUE])
       /\ UNCHANGED <<storeVars, cacheVars, handleVars, tempFiles, mu, now>>

\* (faulty variant of Rename: a failed copy takes back the copies made before it)
RenameCopyRollback(t) ==
    /\ cb[t].pc = "ren_copy"
    /\ \E ok \in BOOLEAN :
         LET f == Called(cb[t])
             oldKey == f.files[f.i]
             newKey == NewKey(oldKey, f.path, f.path2)
             made == {NewKey(f.files[j], f.path, f.path2) : j \in f.gCopied}
         IN IF ok /\ oldKey \in DOMAIN store
            THEN /\ store' = CopyObject(store, oldKey, newKey)
                 /\ storeVer' = storeVer + 1
                 /\ Goto(t, [Mutated(f) EXCEPT !.pc = "ren_delete",
                                               !.gCopied = @ \cup {f.i}])
            ELSE /\ Return(t, [f EXCEPT !.ret = -EIO, !.gFail = TRUE])
                 /\ store' = [k \in (DOMAIN store) \ made |-> store[k]]
                 /\ storeVer' = storeVer + 1
    /\ UNCHANGED <<cacheVars, handleVars, tempFiles, mu, now>>

\* Directory branch: CopyObject of the next key; an error ends the callback
RenameCopy(t) ==
    /\ cb[t].pc = "ren_copy"
    /\ \E ok \in BOOLEAN :
         LET f == Called(cb[t])
             oldKey == f.files[f.i]
             newKey == NewKey(oldKey, f.path, f.path2)
         IN IF ok /\ oldKey \in DOMAIN store
            THEN /\ store' = CopyObject(store, oldKey, newKey)
                 /\ storeVer' = storeVer + 1
                 /\ Goto(t, [Mutated(f) EXCEPT !.pc = "ren_delete",
                                               !.gCopied = @ \cup {f.i}])
            ELSE /\ Return(t, [f EXCEPT !.ret = -EIO, !.gFail = TRUE])
                 /\ UNCHANGED storeVars
    /\ UNCHANGED <<cacheVars, handleVars, tempFiles, mu, now>>

\* Where the directory loop goes after key i
AfterKey(f) ==
    [f EXCEPT !.i = f.i + 1,
              !.pc = IF f.i + 1 > Len(f.files) THEN "invalidate" ELSE "ren_copy"]

\* (faulty variant of Rename: the original is recorded as deleted but stays)
RenameDeleteSkipped(t) ==
    /\ cb[t].pc = "ren_delete"
    /\ Goto(t, AfterKey([cb[t] EXCEPT !.gDeleted = @ \cup {cb[t].i}]))
    /\ UNCHANGED <<storeVars, cacheVars, handleVars, tempFiles, mu, now>>

\* Directory branch: DeleteObject of the original, its error ignored
RenameDelete(t) ==
    /\ cb[t].pc = "ren_delete"
    /\ \E ok \in BOOLEAN :
         LET f == Called(cb[t])
         IN IF ok
            THEN /\ store' = DeleteObject(store, f.files[f.i])
                 /\ storeVer' = storeVer + 1
                 /\ Goto(t, AfterKey([Mutated(f) EXCEPT !.gDeleted = @ \cup {f.i}]))
            ELSE /\ Goto(t, AfterKey([f EXCEPT !.gFail = TRUE]))
                 /\ UNCHANGED storeVars
    /\ UNCHANGED <<cacheVars, handleVars, tempFiles, mu, now>>

\* Directory branch with nothing to move: UploadData of the new marker.
\* (A listing that has the marker also has it among the keys to move, so no
\* callback gets here: RenameMarkerUnreached.)
RenameMarker(t) ==
    /\ cb[t].pc = "ren_marker"
    /\ \E ok \in BOOLEAN :
         LET f == Called(cb[t])
         IN IF ok
            THEN /\ store' = PutObject(store, f.path2 \o Slash, <<>>)
                 /\ storeVer' = storeVer + 1
                 /\ Goto(t, [Mutated(f) EXCEPT !.pc = "ren_marker_delete"])
            ELSE /\ Return(t, [f EXCEPT !.ret = -EIO, !.gFail = TRUE])
                 /\ UNCHANGED storeVars
    /\ UNCHANGED <<cacheVars, handleVars, tempFiles, mu, now>>

\* Directory branch with nothing to move: DeleteObject of the old marker,
\* its error dropped
RenameMarkerDelete(t) ==
    /\ cb[t].pc = "ren_marker_delete"
    /\ \E ok \in BOOLEAN :
         LET f == Called(cb[t])
         IN IF ok
            THEN /\ store' = DeleteObject(store, f.path \o Slash)
                 /\ storeVer' = storeVer + 1
                 /\ Goto(t, [Mutated(f) EXCEPT !.pc = "invalidate"])
            ELSE /\ Goto(t, [f EXCEPT !.pc = "invalidate", !.gFail = TRUE])
                 /\ UNCHANGED storeVars
    /\ UNCHANGED <<cacheVars, handleVars, tempFiles, mu, now>>

\* Plain-file branch: CopyObject old -> new
RenameFileCopy(t) ==
    /\ cb[t].pc = "ren_fcopy"
    /\ \E ok \in BOOLEAN :
         LET f == Called(cb[t])
         IN IF ok /\ f.path \in DOMAIN store
            THEN /\ store' = CopyObject(store, f.path, f.path2)
                 /\ storeVer' = storeVer + 1
                 /\ Goto(t, [Mutated(f) EXCEPT !.pc = "ren_fdelete"])
            ELSE /\ Return(t, [f EXCEPT !.ret = -EIO, !.gFail = TRUE])
                 /\ UNCHANGED storeVars
    /\ UNCHANGED <<cacheVars, handleVars, tempFiles, mu, now>>

\* (faulty variant of RenameFileDelete: a failed delete ends the Rename with EIO)
RenameFileDeleteStrict(t) ==
    /\ cb[t].pc = "ren_fdelete"
    /\ \E ok \in BOOLEAN :
         LET f == Called(cb[t])
         IN IF ok
            THEN /\ store' = DeleteObject(store, f.path)
                 /\ storeVer' = storeVer + 1
                 /\ Goto(t, [Mutated(f) EXCEPT !.pc = "invalidate"])
            ELSE /\ Return(t, [f EXCEPT !.ret = -EIO, !.gFail = TRUE])
                 /\ UNCHANGED storeVars
    /\ UNCHANGED <<cacheVars, handleVars, tempFiles, mu, now>>

\* Plain-file branch: DeleteObject of the original, its error only logged
RenameFileDelete(t) ==
    /\ cb[t].pc = "ren_fdelete"
    /\ \E ok \in BOOLEAN :
         LET f == Called(cb[t])
         IN IF ok
            THEN /\ store' = DeleteObject(store, f.path)
                 /\ storeVer' = storeVer + 1
                 /\ Goto(t, [Mutated(f) EXCEPT !.pc = "invalidate"])
            ELSE /\ Goto(t, [f EXCEPT !.pc = "invalidate", !.gFail = TRUE])
                 /\ UNCHANGED storeVars
    /\ UNCHANGED <<cacheVars, handleVars, tempFiles, mu, now>>

(***************************************************************************)
(* Keys and contents of the checked instances.                             *)
(***************************************************************************)
pA == <<"/", "a">>
pB == <<"/", "b">>
kA == <<"a">>
kAm == <<"a", "/">>
kAx == <<"a", "/", "x">>
kAy == <<"a", "/", "y">>
kB == <<"b">>
kBm == <<"b", "/">>
kBx == <<"b", "/", "x">>
pAB == <<"/", "a", "/", "b">>
kAb == <<"a", "/", "b">>
kAsx == <<"a", "/", "/", "x">>
kABx == <<"a", "/", "b", "/", "x">>

\* A bucket holding the keys of S, key k with content Content0(k)
Content0(k) == IF k[Len(k)] = "/" THEN <<>> ELSE <<Len(k)>>
Bucket(S) == [k \in S |-> Content0(k)]

\* A bucket holding the keys of S, no two files with the same content
Tagged(S) ==
    [k \in S |-> IF k[Len(k)] = "/" THEN <<>>
                 ELSE <<Len(k), CharOrd(k[1]), CharOrd(k[Len(k)])>>]

(***************************************************************************)
(* Spec: two worker threads run Getattr against the callbacks that change  *)
(* the open-handle table, on one path, over every kind of bucket content   *)
(* for that path.  The clock stands still here: no step of these callbacks *)
(* but the listing cache's expiry reads it, and SpecCache covers that.     *)
(***************************************************************************)
\* The handle numbers handed out so far
Allocated == 1..(nextFh - 1)

Init ==
    \/ \E S \in {{}, {kA}, {kAm}, {kAx}} : InitWith(Bucket(S), MaxCalls, FALSE)
    \/ \E S \in {{}, {kAm}} : InitDirty(Bucket(S), kA, <<7>>, MaxCalls, FALSE)

Next ==
    \E t \in Threads :
         \/ Getattr(t, pA)
         \/ Create(t, pA)
         \/ OpenWrite(t, pA)
         \/ OpenGet(t)
         \/ \E fh \in Allocated : Write(t, pA, <<7>>, 0, fh)
         \/ WriteOpen(t)
         \/ WriteFile(t)
         \/ WriteSize(t)
         \/ WriteClose(t)
         \/ \E fh \in Allocated : Release(t, pA, fh)
         \/ ReleaseFlush(t)
         \/ FlushUpload(t)
         \/ FlushRead(t)
         \/ FlushPut(t)
         \/ FlushClose(t)
         \/ FlushClear(t)
         \/ InvalidateCaches(t)
         \/ ReleaseRemove(t)
         \/ ReleaseDelete(t)
         \/ GetListObjectsCheck(t)
         \/ GetListObjectsFetch(t)
         \/ GetListObjectsStore(t)

Spec == Init /\ [][Next]_vars

(***************************************************************************)
(* Properties.                                                             *)
(***************************************************************************)
\* A thread has returned from a callback op
Returned(t, op) == cb[t].op = op /\ cb[t].pc = "done"

\* C1 (handle shadowing): a Getattr of a non-root path that had at least one
\* write handle in the table when it looked returned success with a regular
\* file whose size is the size of such a handle, and made no listing (neither
\* a store listing nor a use of the cached one), whatever the bucket and the
\* listing cache hold for the path.
C1_HandleShadowing ==
    \A t \in Threads :
        (Returned(t, "Getattr") /\ cb[t].path # <<>> /\ cb[t].gSizes # {})
            => /\ cb[t].ret = 0
               /\ cb[t].stat.mode = "reg"
               /\ cb[t].stat.size \in cb[t].gSizes
               /\ ~cb[t].gListed
               /\ cb[t].gListVer = -1

\* C1 witness: Getattr answered from one of two handles of different sizes
\* while the bucket holds a directory marker for the path.
C1_Witness ==
    \E t \in Threads :
        /\ Returned(t, "Getattr")
        /\ cb[t].gSizes = {0, 1}
        /\ cb[t].stat = RegStat(1)
        /\ kAm \in DOMAIN store

(***************************************************************************)
(* SpecCache: two worker threads run the lookups (Getattr, Readdir) against*)
(* the mutating callbacks, with the clock running.  Handle 1 is open and   *)
(* dirty on "b" from the start, so that Flush has data to upload.          *)
(***************************************************************************)
pRoot == <<"/">>

InitCache == \E S \in {{}, {kA}, {kAm}, {kAx}} : InitDirty(Bucket(S), kB, <<7>>, MaxCalls, FALSE)

NextCache ==
    \/ Tick
    \/ \E t \in Threads :
         \/ Getattr(t, pA)
         \/ Readdir(t, pRoot)
         \/ GetListObjectsCheck(t)
         \/ GetListObjectsFetch(t)
         \/ GetListObjectsStore(t)
         \/ Unlink(t, pA)
         \/ Mkdir(t, pA)
         \/ Rmdir(t, pA)
         \/ RmdirDelete(t)
         \/ Rename(t, pA, pB)
         \/ RenameCopy(t)
         \/ RenameDelete(t)
         \/ RenameFileCopy(t)
         \/ RenameFileDelete(t)
         \/ Flush(t, pB, 1)
         \/ FlushUpload(t)
         \/ FlushRead(t)
         \/ FlushPut(t)
         \/ FlushClose(t)
         \/ FlushClear(t)
         \/ InvalidateCaches(t)

SpecCache == InitCache /\ [][NextCache]_vars

\* C2 (invalidation before return): a Getattr or Readdir that was answered
\* from a listing was answered from one read from the store no earlier than
\* the last mutation of every mutating callback (Flush of dirty data,
\* Unlink, Mkdir, Rmdir, Rename) that had returned successfully before the
\* lookup started.
C2_LookupSeesReturnedMutations ==
    \A t \in Threads :
        ((Returned(t, "Getattr") \/ Returned(t, "Readdir")) /\ cb[t].gListVer >= 0)
            => cb[t].gListVer >= cb[t].gStart

(***************************************************************************)
(* SpecSeq: one worker thread, so that no two callbacks overlap; frames    *)
(* record the bucket at their start and the callback before them.          *)
(***************************************************************************)
InitSeq ==
    \/ \E S \in (SUBSET {kA, kAm, kAx}) \cup {{kB}} : InitWith(Bucket(S), SeqCalls, TRUE)
    \/ InitDirty(Bucket({}), kA, <<7>>, SeqCalls, TRUE)
    \/ InitWith(Bucket({pA}), SeqCalls, TRUE)    \* the one key is "/a"
    \/ InitWarm(Bucket({kA}),
                <<[Path |-> kA, Size |-> 1, Dirty |-> TRUE]>>,
                <<[init |-> <<>>, writes |-> <<[ofst |-> 0, buff |-> <<7>>, ok |-> TRUE]>>]>>,
                <<<<7>>>>, SeqCalls, TRUE)

NextSeq ==
    \/ Tick
    \/ Getattr(1, pA)
    \/ GetListObjectsCheck(1)
    \/ GetListObjectsFetch(1)
    \/ GetListObjectsStore(1)
    \/ Unlink(1, pA)
    \/ Mkdir(1, pA)
    \/ Rmdir(1, pA)
    \/ RmdirDelete(1)
    \/ Create(1, pA)
    \/ \E fh \in Allocated : Write(1, pA, <<7>>, 0, fh)
    \/ WriteOpen(1)
    \/ WriteFile(1)
    \/ WriteSize(1)
    \/ WriteClose(1)
    \/ \E fh \in Allocated : Flush(1, pA, fh)
    \/ \E fh \in Allocated : Release(1, pA, fh)
    \/ ReleaseFlush(1)
    \/ FlushUpload(1)
    \/ FlushRead(1)
    \/ FlushPut(1)
    \/ FlushClose(1)
    \/ FlushClear(1)
    \/ InvalidateCaches(1)
    \/ ReleaseRemove(1)
    \/ ReleaseDelete(1)

SpecSeq == InitSeq /\ [][NextSeq]_vars

\* A Getattr(x) has returned that directly followed a successful Mkdir(x)
GetattrAfterMkdir(t) ==
    /\ Returned(t, "Getattr")
    /\ cb[t].gPrev.op = "Mkdir"
    /\ cb[t].gPrev.ret = 0
    /\ cb[t].gPrev.path = cb[t].path

\* C3 as claimed: with no other callback running, a successful Mkdir(x)
\* followed at once by Getattr(x) reports a directory, for every path and
\* every prior state of the listing cache.
C3_MkdirThenGetattrIsDirectory ==
    \A t \in Threads :
        GetattrAfterMkdir(t) => cb[t].ret = 0 /\ cb[t].stat.mode = "dir"

\* C3 as amended: ... provided no write handle is open on x, the bucket
\* holds no object whose key is x itself or x preceded by "/", and the
\* listing fetch of the Getattr does not fail.
C3_MkdirThenGetattrIsDirectoryAmended ==
    \A t \in Threads :
        (/\ GetattrAfterMkdir(t)
         /\ cb[t].gSizes = {}
         /\ cb[t].path \notin DOMAIN cb[t].gPre
         /\ (Slash \o cb[t].path) \notin DOMAIN cb[t].gPre
         /\ ~cb[t].gFail)
            => cb[t].ret = 0 /\ cb[t].stat.mode = "dir"

\* C3 witness: the Mkdir started with a valid cached listing (which did not
\* hold x), and the Getattr after it fetched a new listing and reports a
\* directory.
C3_Witness ==
    \E t \in Threads :
        /\ GetattrAfterMkdir(t)
        /\ cb[t].gPrev.hot
        /\ cb[t].gListed
        /\ cb[t].gSizes = {}
        /\ cb[t].stat = DirStat
        /\ cb[t].ret = 0

\* C5 (Release always cleans up): when Release of a handle that was in the
\* table returns, it returns success, the handle is gone from the table and
\* its staging file is deleted, whether the flush inside succeeded, failed
\* or had nothing to do; when the flush failed the bucket is as it was, so
\* the written data is lost.
C5_ReleaseCleansUp ==
    \A t \in Threads :
        (Returned(t, "Release") /\ cb[t].tempFile # 0)
            => /\ cb[t].ret = 0
               /\ cb[t].fh \notin DOMAIN openFiles
               /\ ~Exists(tempFiles, cb[t].fh)
               /\ (cb[t].gFail => store = cb[t].gPre)

\* The keys the bucket held under path + "/" when the callback of t started
KeysUnder(t) == {k \in DOMAIN cb[t].gPre : HasPrefix(k, cb[t].path \o Slash)}

\* C6 as claimed: Rmdir(p) succeeds when the only key under p + "/" is the
\* marker p + "/" itself (the marker is then gone and the caches are empty),
\* and fails with ENOTEMPTY, the bucket unchanged, when there is a key
\* p + "/" + suffix with a non-empty suffix (no store call failing).
C6_RmdirEmptyAndFull ==
    \A t \in Threads :
        (Returned(t, "Rmdir") /\ ~cb[t].gFail)
            => /\ KeysUnder(t) = {cb[t].path \o Slash}
                    => /\ cb[t].ret = 0
                       /\ (cb[t].path \o Slash) \notin DOMAIN store
                       /\ listCache = Nil
                       /\ statfsCache = Nil
               /\ (\E k \in KeysUnder(t) : k # cb[t].path \o Slash)
                    => /\ cb[t].ret = -ENOTEMPTY
                       /\ store = cb[t].gPre

(***************************************************************************)
(* SpecRename: one worker thread renames directories and files, between    *)
(* unrelated paths, onto the same path, and into and out of a directory's  *)
(* own subtree, over buckets with and without keys under the new path.     *)
(***************************************************************************)
RenameKeys == {kA, kAm, kAx, kAy, kABx, kBx}

InitRename ==
    \E S \in SUBSET RenameKeys :
        \/ InitWith(Tagged(S), RenameCalls, TRUE)
        \/ InitWarm(Tagged(S), <<>>, <<>>, <<>>, RenameCalls, TRUE)

NextRename ==
    \/ \E o \in {pA, pAB}, n \in {pA, pB, pAB} : Rename(1, o, n)
    \/ RenameCopy(1)
    \/ RenameDelete(1)
    \/ RenameFileCopy(1)
    \/ RenameFileDelete(1)
    \/ InvalidateCaches(1)

SpecRename == InitRename /\ [][NextRename]_vars

\* The branch for an empty explicit directory is never taken: the marker
\* is itself one of the keys to move
RenameMarkerUnreached == \A t \in Threads : cb[t].pc # "ren_marker"

\* A Rename has returned that took the directory branch
DirRenameReturned(t) == Returned(t, "Rename") /\ Len(cb[t].files) > 0

\* The keys under old + "/" when the Rename of t started
OldKeys(t) == {k \in DOMAIN cb[t].gPre : HasPrefix(k, cb[t].path \o Slash)}

\* new + "/" + s for the key k = old + "/" + s
Target(t, k) == (cb[t].path2 \o Slash) \o SubSeq(k, Len(cb[t].path) + 2, Len(k))

Targets(t) == {Target(t, k) : k \in OldKeys(t)}

\* Neither of old + "/" and new + "/" is a prefix of the other
Apart(t) ==
    /\ ~HasPrefix(cb[t].path \o Slash, cb[t].path2 \o Slash)
    /\ ~HasPrefix(cb[t].path2 \o Slash, cb[t].path \o Slash)

\* C7 as claimed: when no store call fails, a directory Rename(old, new)
\* moves every key old/s to new/s with its content; afterwards the keys
\* under new/ are exactly the moved ones, no key under old/ remains, and
\* every key outside old/ is unchanged.
C7_DirectoryRenameMoves ==
    \A t \in Threads :
        (DirRenameReturned(t) /\ ~cb[t].gFail)
            => /\ cb[t].ret = 0
               /\ \A k \in OldKeys(t) :
                    Target(t, k) \in DOMAIN store /\ store[Target(t, k)] = cb[t].gPre[k]
               /\ {k \in DOMAIN store : HasPrefix(k, cb[t].path2 \o Slash)} = Targets(t)
               /\ \A k \in DOMAIN store : ~HasPrefix(k, cb[t].path \o Slash)
               /\ \A k \in (DOMAIN cb[t].gPre) \ OldKeys(t) :
                    k \in DOMAIN store /\ store[k] = cb[t].gPre[k]

\* C7 as amended: ... provided neither of old/ and new/ is a prefix of the
\* other: every key old/s is at new/s with its content, no key under old/
\* remains, and every key that was neither under old/ nor is one of the
\* new/s is unchanged (keys that were under new/ before stay, those equal
\* to a new/s are overwritten); the bucket holds nothing else.
C7_DirectoryRenameMovesApart ==
    \A t \in Threads :
        (DirRenameReturned(t) /\ ~cb[t].gFail /\ Apart(t))
            => /\ cb[t].ret = 0
               /\ \A k \in OldKeys(t) :
                    Target(t, k) \in DOMAIN store /\ store[Target(t, k)] = cb[t].gPre[k]
               /\ \A k \in DOMAIN store : ~HasPrefix(k, cb[t].path \o Slash)
               /\ \A k \in ((DOMAIN cb[t].gPre) \ OldKeys(t)) \ Targets(t) :
                    k \in DOMAIN store /\ store[k] = cb[t].gPre[k]
               /\ DOMAIN store = ((DOMAIN cb[t].gPre) \ OldKeys(t)) \cup Targets(t)

\* C7 witness: a/, a/x and a/y were renamed to b/ while b/x was there
C7_Witness ==
    \E t \in Threads :
        /\ DirRenameReturned(t)
        /\ ~cb[t].gFail
        /\ cb[t].path = kA /\ cb[t].path2 = kB
        /\ OldKeys(t) = {kAm, kAx, kAy}
        /\ kBx \in DOMAIN cb[t].gPre
        /\ cb[t].gPre[kBx] # cb[t].gPre[kAx]
        /\ store[kBx] = cb[t].gPre[kAx]
        /\ kAx \notin DOMAIN store

\* What C8 says of the keys to move, in the bucket as the Rename left it
NoRollback(t) ==
    \A i \in 1..Len(cb[t].files) :
        LET k == cb[t].files[i]
            n == Target(t, k)
        IN /\ i \in cb[t].gCopied
                => n \in DOMAIN store /\ store[n] = cb[t].gPre[k]
           /\ (i \in cb[t].gCopied /\ i \notin cb[t].gDeleted)
                => k \in DOMAIN store /\ store[k] = cb[t].gPre[k]
           /\ i \notin cb[t].gCopied
                => /\ k \in DOMAIN store /\ store[k] = cb[t].gPre[k]
                   /\ n \in DOMAIN store <=> n \in DOMAIN cb[t].gPre
                   /\ n \in DOMAIN store => store[n] = cb[t].gPre[n]

\* C8 as claimed: a directory Rename in which a store call failed rolls
\* nothing back: every copy made is at its new key, every original whose
\* delete did not succeed is at its old key, and the keys not yet processed
\* are untouched.
C8_NoRollback ==
    \A t \in Threads : (DirRenameReturned(t) /\ cb[t].gFail) => NoRollback(t)

\* C8 as amended: ... provided neither of old/ and new/ is a prefix of the
\* other.
C8_NoRollbackApart ==
    \A t \in Threads :
        (DirRenameReturned(t) /\ cb[t].gFail /\ Apart(t)) => NoRollback(t)

\* C8 witness: the delete of a/x failed after its copy, the copy of the
\* next key failed, and the Rename returned with both a/x and b/x there.
C8_Witness ==
    \E t \in Threads :
        /\ DirRenameReturned(t)
        /\ cb[t].ret = -EIO
        /\ cb[t].path = kA /\ cb[t].path2 = kB
        /\ cb[t].files = <<kAx, kAy>>
        /\ cb[t].gCopied = {1} /\ cb[t].gDeleted = {}
        /\ kAx \in DOMAIN store /\ kBx \in DOMAIN store
        /\ store[kBx] = store[kAx]

\* C9: whenever a store call inside a directory Rename fails, be it a copy
\* or a delete of an original key, the Rename returns -EIO.
C9_DirectoryRenameFailureIsEIO ==
    \A t \in Threads :
        (DirRenameReturned(t) /\ cb[t].gFail) => cb[t].ret = -EIO

(***************************************************************************)
(* SpecIO: one worker thread writes and flushes a handle that an Open for  *)
(* writing has returned, with empty and non-empty buffers at offsets       *)
(* before, at and past the end of the staging file.                        *)
(***************************************************************************)
Buffers == {<<>>, <<7>>, <<8, 9>>}

IOStores == {EmptyStore} \cup {[k \in {kA} |-> c] : c \in {<<>>, <<1>>, <<1, 2, 3>>}}

InitIO ==
    \E st \in IOStores :
        \E data \in {<<>>} \cup {st[k] : k \in DOMAIN st} :
           InitOpen(st, kA, data, SeqCalls, FALSE)

NextIO ==
    \/ \E fh \in Allocated, buff \in Buffers, ofst \in 0..MaxOfst : Write(1, pA, buff, ofst, fh)
    \/ WriteOpen(1)
    \/ WriteFile(1)
    \/ WriteSize(1)
    \/ WriteClose(1)
    \/ \E fh \in Allocated : Flush(1, pA, fh)
    \/ FlushUpload(1)
    \/ FlushRead(1)
    \/ FlushPut(1)
    \/ FlushClose(1)
    \/ FlushClear(1)
    \/ InvalidateCaches(1)

SpecIO == InitIO /\ [][NextIO]_vars

(***************************************************************************)
(* SpecRead: one worker thread reads one path, present or not, with        *)
(* buffers and offsets shorter than, as long as and longer than the        *)
(* object.                                                                 *)
(***************************************************************************)
InitRead == \E st \in IOStores : InitWith(st, SeqCalls, TRUE)

NextRead == \E blen \in 0..MaxBlen, ofst \in 0..MaxOfst : Read(1, pA, blen, ofst)

SpecRead == InitRead /\ [][NextRead]_vars

\* The largest number of a non-empty finite set of numbers
MaxOf(S) == CHOOSE m \in S : \A x \in S : x <= m

\* The last write of ws that covers byte i (0 if none does)
LastCover(ws, i) ==
    MaxOf({0} \cup {j \in 1..Len(ws) : ws[j].ofst < i /\ i <= ws[j].ofst + Len(ws[j].buff)})

\* Byte i of the initial content h.init with the writes h.writes applied in
\* call order; a byte nothing has written is zero
WrittenByte(h, i) ==
    LET j == LastCover(h.writes, i)
    IN IF j > 0 THEN h.writes[j].buff[i - h.writes[j].ofst]
       ELSE IF i <= Len(h.init) THEN h.init[i]
       ELSE 0

\* The largest of the initial length and offset + length of the writes in W
WrittenLen(h, W) ==
    MaxOf({Len(h.init)} \cup {h.writes[j].ofst + Len(h.writes[j].buff) : j \in W})

\* A Flush of a handle that had writes, each of a Write that succeeded, has
\* returned success
FlushedWrites(t) ==
    /\ Returned(t, "Flush")
    /\ cb[t].ret = 0
    /\ cb[t].fh \in DOMAIN hist
    /\ hist[cb[t].fh].writes # <<>>
    /\ \A j \in 1..Len(hist[cb[t].fh].writes) : hist[cb[t].fh].writes[j].ok

\* C4 as claimed: after Write calls on one handle and a successful Flush,
\* the object at the handle's path is the initial staging content with the
\* writes applied in call order, and its length is the largest of the
\* initial length and every offset + length written.
C4_FlushStoresWrites ==
    \A t \in Threads :
        FlushedWrites(t) =>
            LET h == hist[cb[t].fh]
                path == openFiles[cb[t].fh].Path
            IN /\ path \in DOMAIN store
               /\ store[path] = [i \in 1..WrittenLen(h, 1..Len(h.writes)) |-> WrittenByte(h, i)]

\* C4 as amended: ... and its length is the largest of the initial length
\* and offset + length of every write of at least one byte (a write of no
\* bytes past the end does not extend the file); the Flush is one that
\* found the handle dirty and uploaded.
C4_FlushStoresWritesNonEmpty ==
    \A t \in Threads :
        (FlushedWrites(t) /\ cb[t].gMutVer > 0) =>
            LET h == hist[cb[t].fh]
                path == openFiles[cb[t].fh].Path
                W == {j \in 1..Len(h.writes) : Len(h.writes[j].buff) > 0}
            IN /\ path \in DOMAIN store
               /\ store[path] = [i \in 1..WrittenLen(h, W) |-> WrittenByte(h, i)]

\* C4 witness: on a handle whose staging file began as <<1, 2, 3>>, a write
\* of one byte at offset 1 and then of one byte at offset 0 were flushed.
C4_Witness ==
    \E t \in Threads :
        /\ FlushedWrites(t)
        /\ cb[t].gMutVer > 0
        /\ hist[cb[t].fh].init = <<1, 2, 3>>
        /\ Len(hist[cb[t].fh].writes) = 2
        /\ hist[cb[t].fh].writes[1].ofst = 1
        /\ hist[cb[t].fh].writes[2] = [ofst |-> 0, buff |-> <<8, 9>>, ok |-> TRUE]
        /\ hist[cb[t].fh].writes[1].buff = <<7>>
        /\ store[kA] = <<8, 9, 3>>

\* C10: for an object of size n, offset o and buffer length L, Read gives
\* exactly the bytes object[o .. min(o + L, n)) and returns their count;
\* when o >= n it gives no bytes and returns 0; when the store get fails it
\* returns -EIO (so a read that returns no error has returned the whole
\* range).
C10_ReadReturnsRange ==
    \A t \in Threads :
        Returned(t, "Read") =>
            LET f == cb[t]
            IN /\ f.gFail => f.ret = -EIO
               /\ ~f.gFail =>
                    /\ f.path \in DOMAIN f.gPre
                    /\ LET obj == f.gPre[f.path]
                           n == Len(obj)
                           hi == Min(f.ofst + f.blen, n)
                       IN /\ f.data = [i \in 1..(hi - f.ofst) |-> obj[f.ofst + i]]
                          /\ f.ret = Len(f.data)
                          /\ f.ofst >= n => f.ret = 0

(***************************************************************************)
(* SpecReaddir: one worker thread lists (and looks up) a directory over    *)
(* buckets with files, markers, nested keys, a file and a directory of the *)
(* same name, and a key with an empty path segment.                        *)
(***************************************************************************)
ReaddirKeys == {kA, kAm, kAb, kABx, kAx, kAsx, kBx}

InitReaddir == \E S \in SUBSET ReaddirKeys : InitWith(Tagged(S), ReaddirCalls, TRUE)

NextReaddir ==
    \/ \E p \in {pRoot, pA} : Readdir(1, p)
    \/ Getattr(1, pA)
    \/ GetListObjectsCheck(1)
    \/ GetListObjectsFetch(1)
    \/ GetListObjectsStore(1)

SpecReaddir == InitReaddir /\ [][NextReaddir]_vars

\* The part of r before its first "/" (all of r if it has none)
FirstSegment(r) ==
    SubSeq(r, 1, MaxOf({j \in 0..Len(r) : \A i \in 1..j : r[i] # "/"}))

\* The key of objects[i] is below the directory path, and not the path's
\* own marker
IsBelow(objects, i, path) ==
    LET key == TrimPrefix(objects[i].Key, Slash)
    IN IF path = <<>> THEN key # <<>>
       ELSE HasPrefix(key, path \o Slash) /\ Len(key) > Len(path) + 1

\* What is left of that key below the path
Below(objects, i, path) ==
    LET key == TrimPrefix(objects[i].Key, Slash)
    IN IF path = <<>> THEN key ELSE SubSeq(key, Len(path) + 2, Len(key))

\* The listing positions whose key has the first segment name below path
KeysOfSegment(objects, path, name) ==
    {i \in 1..Len(objects) :
        IsBelow(objects, i, path) /\ FirstSegment(Below(objects, i, path)) = name}

\* The distinct non-empty first segments below path
Segments(objects, path) ==
    {FirstSegment(Below(objects, i, path)) :
        i \in {j \in 1..Len(objects) : IsBelow(objects, j, path)}} \ {<<>>}

\* The smallest number of a non-empty finite set of numbers
MinOf(S) == CHOOSE m \in S : \A x \in S : m <= x

\* What C11 says of the entries a Readdir of t emitted
ReaddirAsClaimed(t) ==
    LET e == cb[t].entries
        objects == cb[t].objects
        path == cb[t].path
    IN /\ Len(e) >= 2
       /\ e[1].name = <<".">> /\ e[2].name = <<".", ".">>
       /\ {e[i].name : i \in 3..Len(e)} = Segments(objects, path)
       /\ \A i, j \in 3..Len(e) : e[i].name = e[j].name => i = j
       /\ \A i \in 3..Len(e) : e[i].name # <<>>
       /\ \A i \in 3..Len(e) :
            LET with == KeysOfSegment(objects, path, e[i].name)
            IN with # {} =>
                 (e[i].isDir <=> Len(Below(objects, MinOf(with), path)) > Len(e[i].name))

\* C11: a successful Readdir(p) emits "." and ".." and then exactly one
\* entry per distinct first path segment of the keys below p, no name
\* twice and none empty; the entry is a directory exactly if the segment is
\* followed by "/" in the first listed key that has it.
C11_ReaddirEntries ==
    \A t \in Threads : (Returned(t, "Readdir") /\ cb[t].ret = 0) => ReaddirAsClaimed(t)

\* C12: when the listing fetch fails, Getattr (non-root path, no open
\* write handle) and Readdir return -EIO, not -ENOENT and not an empty
\* successful listing.
C12_ListingFailureIsEIO ==
    \A t \in Threads :
        ((Returned(t, "Getattr") \/ Returned(t, "Readdir")) /\ cb[t].gFail)
            => cb[t].ret = -EIO

\* No key below path continues with "/" (an empty path segment)
NoEmptySegment(objects, path) ==
    \A i \in 1..Len(objects) :
        IsBelow(objects, i, path) => Below(objects, i, path)[1] # "/"

\* Readdir is as C11 says on every listing without an empty path segment
\* below the directory
ReaddirProper ==
    \A t \in Threads :
        (Returned(t, "Readdir") /\ cb[t].ret = 0
           /\ NoEmptySegment(cb[t].objects, cb[t].path)) => ReaddirAsClaimed(t)

(***************************************************************************)
(* SpecStatfs: one worker thread queries the capacity, with and without a  *)
(* cached snapshot, between deletions that empty the caches.               *)
(***************************************************************************)
InitStatfs == \E S \in SUBSET {kA, kAm, kAx, kB} : InitWith(Bucket(S), SeqCalls, TRUE)

NextStatfs ==
    \/ Tick
    \/ Statfs(1)
    \/ StatfsList(1)
    \/ StatfsStore(1)
    \/ Unlink(1, pA)
    \/ InvalidateCaches(1)

SpecStatfs == InitStatfs /\ [][NextStatfs]_vars

\* C13: Statfs never returns an error; when its listing fetch fails it
\* returns success with block size 4096, 1000000000 total blocks,
\* 500000000 free blocks and 1000000 files.
C13_StatfsNeverFails ==
    \A t \in Threads :
        Returned(t, "Statfs") =>
            /\ cb[t].ret = 0
            /\ cb[t].gFail =>
                 /\ cb[t].statfs.Bsize = 4096
                 /\ cb[t].statfs.Blocks = 1000000000
                 /\ cb[t].statfs.Bfree = 500000000
                 /\ cb[t].statfs.Files = 1000000

\* C13 witness: a Statfs whose listing failed has returned, after an Unlink;
\* the snapshot is the fixed one and nothing is cached.
C13_Witness ==
    \E t \in Threads :
        /\ Returned(t, "Statfs")
        /\ cb[t].gFail
        /\ cb[t].gPrev.op = "Unlink"
        /\ cb[t].ret = 0
        /\ cb[t].statfs.Blocks = 1000000000
        /\ statfsCache = Nil

(***************************************************************************)
(* SpecHandle: one thread runs the callbacks that work on handles (Open,   *)
(* Create, Write, Truncate, Flush, Release) with every handle number from  *)
(* 0 to the next one to be handed out, on a bucket with or without the     *)
(* object, starting with no handle, a clean one or a dirty one; Getattr    *)
(* and Statfs fill the two caches.                                         *)
(***************************************************************************)
\* The handle numbers a call may carry: 0 and nextFh were never handed out
HandleArgs == 0..nextFh

\* The staging content of the dirty handle the adapter may start with
Staged == <<5, 6>>

\* The handles the adapter may start with on a bucket holding the keys of
\* S: none; handle 1 after Create(kA) and a Write of Staged at offset 0;
\* handle 1 after an Open for writing of kA that staged the whole object
StartHandles(S) ==
    {[of |-> <<>>, hs |-> <<>>, tf |-> <<>>],
     [of |-> <<[Path |-> kA, Size |-> Len(Staged), Dirty |-> TRUE]>>,
      hs |-> <<[init |-> <<>>, writes |-> <<[ofst |-> 0, buff |-> Staged, ok |-> TRUE]>>]>>,
      tf |-> <<Staged>>]}
    \cup (IF kA \in S
          THEN {[of |-> <<[Path |-> kA, Size |-> Len(Content0(kA)), Dirty |-> FALSE]>>,
                 hs |-> <<[init |-> Content0(kA), writes |-> <<>>]>>,
                 tf |-> <<Content0(kA)>>]}
          ELSE {})

InitHandle ==
    \E S \in {{}, {kA, kB}} :
        \E h \in StartHandles(S) :
            \/ InitHandles(Bucket(S), h.of, h.hs, h.tf, HandleCalls, TRUE)
            \/ InitWarm(Bucket(S), h.of, h.hs, h.tf, HandleCalls, TRUE)

NextHandle ==
    \/ Getattr(1, pB)
    \/ GetListObjectsCheck(1)
    \/ GetListObjectsFetch(1)
    \/ GetListObjectsStore(1)
    \/ Statfs(1)
    \/ StatfsList(1)
    \/ StatfsStore(1)
    \/ Create(1, pB)
    \/ OpenRead(1, pA)
    \/ OpenWrite(1, pA)
    \/ OpenGet(1)
    \/ \E fh \in HandleArgs, buff \in {<<>>, <<7>>}, ofst \in 0..MaxOfst :
          Write(1, pA, buff, ofst, fh)
    \/ WriteOpen(1)
    \/ WriteFile(1)
    \/ WriteSize(1)
    \/ WriteClose(1)
    \/ \E fh \in HandleArgs \cup {NoFh}, size \in 0..MaxOfst : Truncate(1, pA, size, fh)
    \/ TruncFile(1)
    \/ TruncSize(1)
    \/ TruncPut(1)
    \/ \E fh \in HandleArgs : Flush(1, pA, fh)
    \/ FlushUpload(1)
    \/ FlushRead(1)
    \/ FlushPut(1)
    \/ FlushClose(1)
    \/ FlushClear(1)
    \/ InvalidateCaches(1)
    \/ \E fh \in HandleArgs : Release(1, pA, fh)
    \/ ReleaseFlush(1)
    \/ ReleaseRemove(1)
    \/ ReleaseDelete(1)

SpecHandle == InitHandle /\ [][NextHandle]_vars

\* The table, the staging files and the caches are as when the callback of
\* t started
SameHandles(t) == openFiles = cb[t].gSnap.openFiles /\ nextFh = cb[t].gSnap.nextFh
SameFiles(t) == tempFiles = cb[t].gSnap.tempFiles
SameCaches(t) ==
    /\ listCache = cb[t].gSnap.listCache
    /\ listCacheTime = cb[t].gSnap.listCacheTime
    /\ statfsCache = cb[t].gSnap.statfsCache
    /\ statfsCacheTime = cb[t].gSnap.statfsCacheTime

\* The handle the callback of t carries was in the table, dirty, when the
\* callback started
WasOpen(t) == cb[t].fh \in DOMAIN cb[t].gSnap.openFiles
WasDirty(t) == WasOpen(t) /\ cb[t].gSnap.openFiles[cb[t].fh].Dirty

\* C14: a Flush whose handle was not in the open-handle table, or was in it
\* and not dirty, returns success, has issued no store call and has left the
\* store, the table with its dirty flags, and both caches as they were.
C14_FlushNoOp ==
    \A t \in Threads :
        (Returned(t, "Flush") /\ ~WasDirty(t))
            => /\ cb[t].ret = 0
               /\ cb[t].gCalls = 0
               /\ store = cb[t].gPre
               /\ SameHandles(t)
               /\ SameCaches(t)

\* C14 witness: a Flush of a clean handle has returned while both caches
\* were filled.
C14_Witness ==
    /\ Returned(1, "Flush")
    /\ WasOpen(1) /\ ~WasDirty(1)
    /\ listCache # Nil
    /\ statfsCache # Nil

\* C15: a Flush of a dirty handle whose upload failed returns EIO, has made
\* no second upload attempt (one put, or none when the staging file could
\* not be opened), and has left the handle in the table and dirty, the
\* store (so the object at the handle's path) unchanged and both caches as
\* they were.
C15_FlushFailureKeepsDirty ==
    \A t \in Threads :
        (Returned(t, "Flush") /\ WasDirty(t) /\ cb[t].gFail)
            => /\ cb[t].ret = -EIO
               /\ cb[t].gCalls <= 1
               /\ cb[t].fh \in DOMAIN openFiles
               /\ openFiles[cb[t].fh].Dirty
               /\ SameHandles(t)
               /\ store = cb[t].gPre
               /\ SameCaches(t)

\* C15 witness: the upload of a dirty handle has failed while both caches
\* were filled and the bucket held an object at the handle's path.
C15_Witness ==
    /\ Returned(1, "Flush")
    /\ WasDirty(1)
    /\ cb[1].gFail
    /\ cb[1].gCalls = 1
    /\ openFiles[cb[1].fh].Path \in DOMAIN store
    /\ listCache # Nil
    /\ statfsCache # Nil

\* The handles other than the one the callback of t carries, and their
\* staging files, are as when the callback started
OthersSame(t) ==
    /\ DOMAIN openFiles = DOMAIN cb[t].gSnap.openFiles
    /\ nextFh = cb[t].gSnap.nextFh
    /\ \A h \in (DOMAIN openFiles) \ {cb[t].fh} : openFiles[h] = cb[t].gSnap.openFiles[h]
    /\ DOMAIN tempFiles \ {cb[t].fh} = DOMAIN cb[t].gSnap.tempFiles \ {cb[t].fh}
    /\ \A h \in (DOMAIN tempFiles) \ {cb[t].fh} : tempFiles[h] = cb[t].gSnap.tempFiles[h]

\* C16: a Write on a handle in the table that succeeded returned the length
\* of its buffer, left the handle's size at the larger of its previous size
\* and offset + length (so never smaller than before) and the handle dirty,
\* issued no store call, and left the store, both caches and every other
\* handle as they were.
C16_WriteUpdatesSize ==
    \A t \in Threads :
        (Returned(t, "Write") /\ WasOpen(t) /\ cb[t].ret >= 0)
            => /\ cb[t].ret = Len(cb[t].buff)
               /\ cb[t].fh \in DOMAIN openFiles
               /\ openFiles[cb[t].fh].Size =
                     Max(cb[t].gSnap.openFiles[cb[t].fh].Size, cb[t].ofst + Len(cb[t].buff))
               /\ openFiles[cb[t].fh].Size >= cb[t].gSnap.openFiles[cb[t].fh].Size
               /\ openFiles[cb[t].fh].Dirty
               /\ openFiles[cb[t].fh].Path = cb[t].gSnap.openFiles[cb[t].fh].Path
               /\ cb[t].gCalls = 0
               /\ store = cb[t].gPre
               /\ SameCaches(t)
               /\ OthersSame(t)

\* C16 witness: a Write that ends before the handle's size has succeeded
\* while another handle was open and both caches were filled.
C16_Witness ==
    /\ Returned(1, "Write")
    /\ WasOpen(1)
    /\ cb[1].ret = 1
    /\ cb[1].ofst + Len(cb[1].buff) < cb[1].gSnap.openFiles[cb[1].fh].Size
    /\ (DOMAIN openFiles) \ {cb[1].fh} # {}
    /\ listCache # Nil
    /\ statfsCache # Nil

\* C17: a Write, or a Truncate that carries a handle, whose handle number
\* was not in the open-handle table (never handed out, or released) returns
\* EBADF and has changed no handle, no staging file, no cache and no object
\* of the store.
C17_UnknownHandleIsEBADF ==
    \A t \in Threads :
        (/\ Returned(t, "Write") \/ (Returned(t, "Truncate") /\ cb[t].fh # NoFh)
         /\ ~WasOpen(t))
            => /\ cb[t].ret = -EBADF
               /\ cb[t].gCalls = 0
               /\ SameHandles(t)
               /\ SameFiles(t)
               /\ SameCaches(t)
               /\ store = cb[t].gPre

\* C17 witness: a Truncate on the handle that the Release before it had
\* removed has returned, with the caches filled.
C17_Witness ==
    /\ Returned(1, "Truncate")
    /\ cb[1].fh \in Allocated
    /\ ~WasOpen(1)
    /\ cb[1].gPrev.op = "Release"
    /\ cb[1].gPrev.fh = cb[1].fh
    /\ cb[1].ret = -EBADF
    /\ listCache # Nil

\* C18: a Truncate that carries a handle of the table and returns success
\* has left the staging file with exactly size bytes (its first bytes kept,
\* zeros added when it was shorter), the handle's size equal to size, also
\* when that is less than before, and the handle dirty, and has issued no
\* store call; a successful Flush of that handle right after it leaves an
\* object of length size at the handle's path.
C18_TruncateResizes ==
    \A t \in Threads :
        /\ (Returned(t, "Truncate") /\ cb[t].fh # NoFh /\ WasOpen(t) /\ cb[t].ret = 0)
              => /\ cb[t].fh \in DOMAIN tempFiles
                 /\ Len(tempFiles[cb[t].fh]) = cb[t].size
                 /\ cb[t].fh \in DOMAIN cb[t].gSnap.tempFiles
                 /\ tempFiles[cb[t].fh] = Resize(cb[t].gSnap.tempFiles[cb[t].fh], cb[t].size)
                 /\ cb[t].fh \in DOMAIN openFiles
                 /\ openFiles[cb[t].fh].Size = cb[t].size
                 /\ openFiles[cb[t].fh].Dirty
                 /\ cb[t].gCalls = 0
                 /\ store = cb[t].gPre
        /\ (/\ Returned(t, "Flush") /\ cb[t].ret = 0
            /\ cb[t].gPrev.op = "Truncate" /\ cb[t].gPrev.ret = 0
            /\ cb[t].gPrev.fh = cb[t].fh)
              => /\ cb[t].fh \in DOMAIN openFiles
                 /\ openFiles[cb[t].fh].Path \in DOMAIN store
                 /\ Len(store[openFiles[cb[t].fh].Path]) = cb[t].gPrev.size
                 /\ cb[t].gCalls = 1

\* C18 witness: the handle that held Staged was truncated to one byte, less
\* than its size, and the Flush after it has stored that byte.
C18_Witness ==
    /\ Returned(1, "Flush")
    /\ cb[1].ret = 0
    /\ cb[1].gPrev.op = "Truncate"
    /\ cb[1].gPrev.ret = 0
    /\ cb[1].gPrev.fh = cb[1].fh
    /\ cb[1].gPrev.size = 1
    /\ cb[1].gPrev.size < Len(Staged)
    /\ kA \in DOMAIN store
    /\ store[kA] = SubSeq(Staged, 1, 1)

\* C19: a Truncate that carries no handle, with size 0, returns success
\* when its put succeeds, and the store then holds a zero-length object at
\* the path (also when none was there) and is otherwise as before, or
\* returns EIO when the put fails; with a size above 0 it returns ENOSYS and
\* the store is as before.  The open-handle table is as before in all three
\* cases.
C19_TruncateWithoutHandle ==
    \A t \in Threads :
        (Returned(t, "Truncate") /\ cb[t].fh = NoFh)
            => /\ SameHandles(t)
               /\ IF cb[t].size = 0
                  THEN IF cb[t].gFail
                       THEN cb[t].ret = -EIO
                       ELSE /\ cb[t].ret = 0
                            /\ store = PutObject(cb[t].gPre, cb[t].path, <<>>)
                            /\ cb[t].gCalls = 1
                  ELSE /\ cb[t].ret = -ENOSYS
                       /\ store = cb[t].gPre
                       /\ cb[t].gCalls = 0

\* C19 witness: a Truncate to 0 without a handle has created the object
\* while a handle was open.
C19_Witness ==
    /\ Returned(1, "Truncate")
    /\ cb[1].fh = NoFh
    /\ cb[1].size = 0
    /\ cb[1].ret = 0
    /\ cb[1].path \notin DOMAIN cb[1].gPre
    /\ cb[1].path \in DOMAIN store
    /\ store[cb[1].path] = <<>>
    /\ openFiles # <<>>

\* An Open for writing has returned on thread t
OpenedForWrite(t) == Returned(t, "Open") /\ cb[t].fh # 0

\* The Open of t added exactly one handle, not dirty, on its path
OneNewHandle(t) ==
    /\ cb[t].ret = 0
    /\ cb[t].fhOut = cb[t].fh
    /\ cb[t].fh \notin DOMAIN cb[t].gSnap.openFiles
    /\ DOMAIN openFiles = DOMAIN cb[t].gSnap.openFiles \cup {cb[t].fh}
    /\ \A h \in DOMAIN cb[t].gSnap.openFiles : openFiles[h] = cb[t].gSnap.openFiles[h]
    /\ openFiles[cb[t].fh].Path = cb[t].path
    /\ ~openFiles[cb[t].fh].Dirty

\* The staging file of the Open of t holds as many bytes as the object had
DownloadComplete(t) ==
    /\ ~cb[t].gFail
    /\ cb[t].fh \in DOMAIN tempFiles
    /\ Len(tempFiles[cb[t].fh]) = Len(cb[t].gPre[cb[t].path])

\* C20: an Open for writing that has returned succeeded and added exactly
\* one handle, not dirty; when the get succeeded and the download was
\* complete the staging file holds the object's content and the handle's
\* size is the object's size; when the get failed the staging file is empty
\* and the size is 0; in every case the staging file exists and the handle's
\* size is its length.
C20_OpenStagesObject ==
    \A t \in Threads :
        OpenedForWrite(t)
            => /\ OneNewHandle(t)
               /\ DownloadComplete(t)
                    => /\ tempFiles[cb[t].fh] = cb[t].gPre[cb[t].path]
                       /\ openFiles[cb[t].fh].Size = Len(cb[t].gPre[cb[t].path])
               /\ cb[t].gFail
                    => /\ cb[t].fh \in DOMAIN tempFiles
                       /\ tempFiles[cb[t].fh] = <<>>
                       /\ openFiles[cb[t].fh].Size = 0
               /\ cb[t].fh \in DOMAIN tempFiles
               /\ openFiles[cb[t].fh].Size = Len(tempFiles[cb[t].fh])

\* The part of C20 that the code keeps: the handle is added in every case,
\* and when the staging file was created and the copy, if any, ran to the
\* end, content and size are as claimed.
OpenProper ==
    \A t \in Threads :
        OpenedForWrite(t)
            => /\ OneNewHandle(t)
               /\ (cb[t].fh \in DOMAIN tempFiles /\ (cb[t].gFail \/ DownloadComplete(t)))
                    => /\ tempFiles[cb[t].fh] =
                             (IF cb[t].gFail THEN <<>> ELSE cb[t].gPre[cb[t].path])
                       /\ openFiles[cb[t].fh].Size = Len(tempFiles[cb[t].fh])

\* An Open for reading has returned on thread t
OpenedForRead(t) == Returned(t, "Open") /\ cb[t].fh = 0

\* C21: the open-handle table never has an entry 0; an Open for reading
\* returns success with handle 0, has issued no store call and has left the
\* table, the next handle number, the staging files, the store and both
\* caches as they were; a Flush, Write or Release that carries 0 leaves the
\* table and the staging files as they were.
C21_ReadOpenHasNoHandle ==
    /\ 0 \notin DOMAIN openFiles
    /\ \A t \in Threads :
         /\ OpenedForRead(t)
              => /\ cb[t].ret = 0
                 /\ cb[t].fhOut = 0
                 /\ cb[t].gCalls = 0
                 /\ SameHandles(t)
                 /\ SameFiles(t)
                 /\ SameCaches(t)
                 /\ store = cb[t].gPre
         /\ ((Returned(t, "Flush") \/ Returned(t, "Write") \/ Returned(t, "Release"))
             /\ cb[t].fh = 0)
              => /\ SameHandles(t)
                 /\ SameFiles(t)
                 /\ cb[t].gCalls = 0

\* C21 witness: a Release carrying the handle 0 that the Open for reading
\* before it had returned has itself returned, while a dirty write handle
\* was open and both caches were filled.
C21_Witness ==
    /\ Returned(1, "Release")
    /\ cb[1].fh = 0
    /\ cb[1].gPrev.op = "Open"
    /\ cb[1].gPrev.fh = 0
    /\ cb[1].gPrev.ret = 0
    /\ \E h \in DOMAIN openFiles : openFiles[h].Dirty
    /\ listCache # Nil
    /\ statfsCache # Nil

\* C22: a Create that returned success has added exactly one handle, on its
\* path, not dirty, of size 0, with an empty staging file, has issued no
\* store call, and has left the store, both caches, and the other handles
\* with their staging files as they were, whether or not the bucket holds
\* an object at the path.
C22_CreateAddsEmptyHandle ==
    \A t \in Threads :
        (Returned(t, "Create") /\ cb[t].ret = 0)
            => /\ OneNewHandle(t)
               /\ nextFh = cb[t].gSnap.nextFh + 1
               /\ openFiles[cb[t].fh].Size = 0
               /\ cb[t].fh \in DOMAIN tempFiles
               /\ tempFiles[cb[t].fh] = <<>>
               /\ \A h \in DOMAIN cb[t].gSnap.tempFiles :
                     h \in DOMAIN tempFiles /\ tempFiles[h] = cb[t].gSnap.tempFiles[h]
               /\ cb[t].gCalls = 0
               /\ store = cb[t].gPre
               /\ SameCaches(t)

\* C22 witness: a Create has succeeded on a path at which the bucket holds
\* an object that is not empty, while another handle was open and both
\* caches were filled.
C22_Witness ==
    /\ Returned(1, "Create")
    /\ cb[1].ret = 0
    /\ cb[1].path \in DOMAIN store
    /\ Len(store[cb[1].path]) > 0
    /\ cb[1].gSnap.openFiles # <<>>
    /\ listCache # Nil
    /\ statfsCache # Nil

\* Thread t starts a Create or an Open for writing in this step and is given
\* the handle number cb'[t].fh
Allocates(t) ==
    /\ cb[t].pc \in {"idle", "done"}
    /\ cb'[t] # cb[t]
    /\ cb'[t].op \in {"Create", "Open"}
    /\ cb'[t].fh # 0

\* The handle numbers handed out that are still known: those in the table
\* and those held by a Create or Open of some thread
KnownIds ==
    (DOMAIN openFiles)
    \cup {cb[t].fh : t \in {u \in Threads : cb[u].op \in {"Create", "Open"} /\ cb[u].fh # 0}}

\* C23: under every interleaving of Create, Open for writing and Release on
\* two threads, a handle number that is handed out is the allocator's value,
\* which then grows by one and never shrinks, so the number is above every
\* number handed out before, two calls never get the same number, and the
\* number of a released handle does not come back; a handle enters the
\* table under the newest number handed out, above every number in the
\* table.
C23_HandleIdsIncrease ==
    [][/\ nextFh' >= nextFh
       /\ \A t \in Threads :
            Allocates(t) => /\ cb'[t].fh = nextFh
                            /\ nextFh' = nextFh + 1
                            /\ \A h \in KnownIds : h < cb'[t].fh
       /\ \A h \in (DOMAIN openFiles') \ (DOMAIN openFiles) :
            /\ h = nextFh' - 1
            /\ \A g \in DOMAIN openFiles : g < h]_vars

\* C23 witness: after handle 1 was released, a Create on one thread and an
\* Open for writing on the other have each returned a handle, the numbers
\* 2 and 3.
C23_Witness ==
    \E t, u \in Threads :
        /\ Returned(t, "Create") /\ cb[t].ret = 0
        /\ Returned(u, "Open") /\ cb[u].fh # 0
        /\ {cb[t].fhOut, cb[u].fhOut} = {2, 3}
        /\ 1 \notin DOMAIN openFiles
        /\ DOMAIN openFiles = {2, 3}

\* A Rename has returned that took the plain-file branch, made its copy,
\* and whose delete of the original failed (three store calls: the listing,
\* the copy, the delete)
FileRenameDeleteFailed(t) ==
    /\ Returned(t, "Rename")
    /\ ~IsDirMarked(cb[t].objects, cb[t].path)
    /\ Len(cb[t].files) = 0
    /\ cb[t].gCalls = 3
    /\ cb[t].gFail

\* C24: a Rename of a plain file whose copy succeeded and whose delete of
\* the original failed returns success; the bucket then holds old and new,
\* both with the content old had, and is otherwise as before; both caches
\* are empty.
C24_FileRenameToleratesDeleteFailure ==
    \A t \in Threads :
        FileRenameDeleteFailed(t)
            => /\ cb[t].ret = 0
               /\ cb[t].path \in DOMAIN cb[t].gPre
               /\ store = PutObject(cb[t].gPre, cb[t].path2, cb[t].gPre[cb[t].path])
               /\ store[cb[t].path] = store[cb[t].path2]
               /\ listCache = Nil
               /\ listCacheTime = ZeroTime
               /\ statfsCache = Nil

\* C24 witness: such a Rename from a to b has returned; both caches were
\* filled when it started.
C24_Witness ==
    /\ FileRenameDeleteFailed(1)
    /\ cb[1].path = kA
    /\ cb[1].path2 = kB
    /\ cb[1].gSnap.listCache # Nil
    /\ cb[1].gSnap.statfsCache # Nil
    /\ kA \in DOMAIN store
    /\ kB \in DOMAIN store

\* C25: in every state the listing cache and the capacity cache are both
\* empty, or both filled with the capacity snapshot being the one computed
\* from the cached listing.
C25_CachesFilledTogether ==
    \/ listCache = Nil /\ statfsCache = Nil
    \/ /\ listCache # Nil
       /\ statfsCache # Nil
       /\ statfsCache[1] = ComputeStatfs(listCache)

\* C26: a Getattr or Readdir that was answered from the listing cache got a
\* listing read from the store less than 2 s before, and a Statfs answered
\* from the capacity cache got a snapshot whose listing was read less than
\* 30 s before.
C26_CacheHitYoungerThanTTL ==
    \A t \in Threads :
        /\ ((Returned(t, "Getattr") \/ Returned(t, "Readdir")) /\ cb[t].gAge >= 0)
              => cb[t].gAge < ListCacheTTL
        /\ (Returned(t, "Statfs") /\ cb[t].gAge >= 0)
              => cb[t].gAge < StatfsCacheTTL

\* C27: when several write handles are open on a path with different known
\* sizes, Getattr reports the known size of the handle updated last: after
\* a Create, an Open for writing, a Write or a Truncate on a handle of the
\* path has succeeded, the next Getattr of the path reports that handle's size
UpdatedLast(t) ==
    /\ cb[t].gPrev.op \in {"Create", "Open", "Write", "Truncate"}
    /\ cb[t].gPrev.ret >= 0
    /\ cb[t].gPrev.fh \in DOMAIN openFiles
    /\ openFiles[cb[t].gPrev.fh].Path = cb[t].path

C27_GetattrReportsLatestHandle ==
    \A t \in Threads :
        (Returned(t, "Getattr") /\ Cardinality(cb[t].gSizes) >= 2 /\ UpdatedLast(t))
            => /\ cb[t].ret = 0
               /\ cb[t].stat = RegStat(openFiles[cb[t].gPrev.fh].Size)

\* The listing entries whose key is the path or the path plus "/"
KeyMatches(objects, path) ==
    {i \in 1..Len(objects) :
        objects[i].Key = path \/ objects[i].Key = path \o Slash}

\* C28: Getattr of a path other than the root on which no write handle is
\* open, given a listing, is decided by the first entry whose key is the
\* path or the path plus "/" (a file with the entry's size, or a directory
\* if the entry is a directory marker); without such an entry it is a
\* directory if some key starts with the path plus "/", and ENOENT
\* otherwise.  Getattr of the root is a directory and takes no listing.
C28_GetattrResolutionOrder ==
    \A t \in Threads :
        Returned(t, "Getattr") =>
            IF cb[t].path = <<>>
            THEN cb[t].ret = 0 /\ cb[t].stat = DirStat /\ cb[t].gCalls = 0
            ELSE (cb[t].gSizes = {} /\ ~cb[t].gFail) =>
                   LET objects == cb[t].objects
                       exact == KeyMatches(objects, cb[t].path)
                   IN IF exact # {}
                      THEN LET obj == objects[CHOOSE i \in exact : \A j \in exact : i <= j]
                           IN /\ cb[t].ret = 0
                              /\ cb[t].stat = IF obj.IsDir THEN DirStat
                                                           ELSE RegStat(obj.Size)
                      ELSE IF \E i \in 1..Len(objects) :
                                  HasPrefix(objects[i].Key, cb[t].path \o Slash)
                      THEN cb[t].ret = 0 /\ cb[t].stat = DirStat
                      ELSE cb[t].ret = -ENOENT

\* A thread holds fs.mu, for writing or for reading
HoldsLock(t) == mu.writer = t \/ t \in mu.readers

\* C29: no callback calls the store (list, get, put, delete, copy) while it
\* holds fs.mu; the download of an Open for writing runs without the lock
C29_NoStoreCallUnderLock ==
    [][\A t \in Threads :
          (cb'[t].op = cb[t].op /\ cb'[t].gCalls > cb[t].gCalls) => ~HoldsLock(t)]_vars

(***************************************************************************)
(* SpecCapacity: the capacity computation of Statfs on listings of objects *)
(* of any size.  The callback starts where its ListObjects has returned    *)
(* the listing; the bucket itself plays no part and is left empty.         *)
(***************************************************************************)
\* Listings, in key order, of at most the file a, the marker a/ and the
\* file b, with sizes around one and two blocks
CapacityListings ==
    LET sizes == {0, 1, BlockSize - 1, BlockSize, BlockSize + 1, 2 * BlockSize}
        Opt(key, ss) ==
            {<<>>} \cup {<<[Key |-> key, Size |-> n,
                            IsDir |-> Len(key) > 0 /\ key[Len(key)] = "/"]>> : n \in ss}
    IN {x \o y \o z : x \in Opt(kA, sizes), y \in Opt(kAm, {0, BlockSize}),
                       z \in Opt(kB, sizes)}

InitCapacity ==
    \E objects \in CapacityListings :
        /\ store = EmptyStore
        /\ storeVer = 0
        /\ listCache = Nil
        /\ listCacheTime = ZeroTime
        /\ listCacheVer = 0
        /\ listCacheRead = ZeroTime
        /\ statfsCache = Nil
        /\ statfsCacheTime = ZeroTime
        /\ statfsCacheRead = ZeroTime
        /\ openFiles = <<>>
        /\ nextFh = 1
        /\ hist = <<>>
        /\ tempFiles = <<>>
        /\ mu = [writer |-> 0, readers |-> {}]
        /\ now = StartTime
        /\ cb = [t \in Threads |->
                   IF t = 1
                   THEN [Idle EXCEPT !.op = "Statfs", !.pc = "statfs_compute",
                                     !.objects = objects, !.gListed = TRUE,
                                     !.gCalls = 1, !.gReadAt = StartTime]
                   ELSE Idle]
        /\ retVer = 0
        /\ budget = 0
        /\ track = FALSE

NextCapacity ==
    \/ StatfsCompute(1)
    \/ StatfsStore(1)

SpecCapacity == InitCapacity /\ [][NextCapacity]_vars

\* Sum of the sizes of the entries of a listing that are not directory markers
RECURSIVE FileBytes(_)
FileBytes(objects) ==
    IF objects = <<>> THEN 0
    ELSE (IF Head(objects).IsDir THEN 0 ELSE Head(objects).Size) + FileBytes(Tail(objects))

\* The least number of blocks of 4096 bytes that hold n bytes
BlocksFor(n) == CHOOSE b \in 0..n : b * 4096 >= n /\ (b = 0 \/ (b - 1) * 4096 < n)

\* A thread has computed a snapshot from a listing it holds
FreshSnapshot(t) ==
    /\ cb[t].op = "Statfs" /\ cb[t].pc \in {"statfs_store", "done"}
    /\ cb[t].gListed /\ ~cb[t].gFail

\* C30: a snapshot computed from a listing has block size 4096, 2621440
\* free blocks (10 GiB / 4096) and ceil(S / 4096) + 2621440 blocks in all,
\* S being the sum of the sizes of the entries that are not directory
\* markers; so free blocks are positive and total less free is
\* ceil(S / 4096), for the empty listing too
C30_CapacityArithmetic ==
    \A t \in Threads :
        FreshSnapshot(t) =>
            LET S == FileBytes(cb[t].objects)
            IN /\ cb[t].statfs.Bsize = 4096
               /\ cb[t].statfs.Bfree = 2621440
               /\ cb[t].statfs.Blocks = BlocksFor(S) + 2621440
               /\ cb[t].statfs.Bfree > 0
               /\ cb[t].statfs.Blocks - cb[t].statfs.Bfree = BlocksFor(S)

\* C30 witness: the snapshot of a listing with files of 4097 and 1 bytes
\* and a directory marker of 4096 bytes was computed and cached: 4098 bytes
\* take two blocks.
C30_Witness ==
    \E t \in Threads :
        /\ FreshSnapshot(t)
        /\ cb[t].pc = "done"
        /\ Len(cb[t].objects) = 3
        /\ cb[t].objects[1].Size = 4097
        /\ cb[t].objects[2].IsDir /\ cb[t].objects[2].Size = 4096
        /\ cb[t].objects[3].Size = 1
        /\ cb[t].statfs.Blocks = 2621442
        /\ statfsCache = <<cb[t].statfs>>

\* A Rename has returned, no store call of which failed, whose old path was
\* an empty explicit directory: the bucket held the marker old + "/" and no
\* other key under it
EmptyDirRenamed(t) ==
    /\ Returned(t, "Rename")
    /\ ~cb[t].gFail
    /\ OldKeys(t) = {cb[t].path \o Slash}

\* What C31 says of the Rename of an empty explicit directory by t
EmptyDirMoved(t) ==
    LET oldMarker == cb[t].path \o Slash
        newMarker == cb[t].path2 \o Slash
    IN /\ cb[t].ret = 0
       /\ newMarker \in DOMAIN store
       /\ oldMarker \notin DOMAIN store
       /\ DOMAIN store = ((DOMAIN cb[t].gPre) \ {oldMarker}) \cup {newMarker}
       /\ \A k \in (DOMAIN cb[t].gPre) \ {oldMarker, newMarker} :
             store[k] = cb[t].gPre[k]
       /\ listCache = Nil /\ statfsCache = Nil

\* C31 as claimed: the Rename of an empty explicit directory old to new,
\* with no store failure, leaves a marker at new + "/" and none at
\* old + "/", changes no other key, returns success and empties the caches.
C31_EmptyDirectoryRename ==
    \A t \in Threads : EmptyDirRenamed(t) => EmptyDirMoved(t)

\* C31 as amended: ... to a path new other than old ...
C31_EmptyDirectoryRenameElsewhere ==
    \A t \in Threads :
        (EmptyDirRenamed(t) /\ cb[t].path2 # cb[t].path) => EmptyDirMoved(t)

\* C31 witness: with both caches filled, the empty directory a/ was renamed
\* to b while b/x was in the bucket; b/ is there, a/ is not.
C31_Witness ==
    \E t \in Threads :
        /\ EmptyDirRenamed(t)
        /\ cb[t].path = kA /\ cb[t].path2 = kB
        /\ cb[t].gSnap.listCache # Nil /\ cb[t].gSnap.statfsCache # Nil
        /\ kBx \in DOMAIN cb[t].gPre
        /\ kBm \in DOMAIN store /\ kAm \notin DOMAIN store
        /\ listCache = Nil

\* No callback is in progress
Quiet == \A t \in Threads : cb[t].pc \in {"idle", "done"}

\* C32: whenever no callback is in progress, the staging files on disk are
\* exactly the staging files of the handles in the table (maxiofs-<fh>.tmp
\* for handle fh); a Write that races with the Release of its handle leaves
\* no staging file behind
C32_StagingFilesMatchHandles ==
    Quiet => DOMAIN tempFiles = DOMAIN openFiles

\* An Unlink or a Mkdir has returned whose store call failed
FailedUnlinkOrMkdir(t) ==
    (Returned(t, "Unlink") \/ Returned(t, "Mkdir")) /\ cb[t].gFail

\* C33: when the store call of Unlink (delete) or of Mkdir (put of the
\* marker) fails, the callback returns EIO after that one call, and the
\* bucket, the listing cache, the capacity cache and the handle table are
\* as they were when it started
C33_FailedUnlinkMkdirChangeNothing ==
    \A t \in Threads :
        FailedUnlinkOrMkdir(t) =>
            /\ cb[t].ret = -EIO
            /\ cb[t].gCalls = 1
            /\ store = cb[t].gPre
            /\ SameCaches(t)
            /\ SameHandles(t)

\* C33 witness: with both caches filled and a dirty handle open, the
\* Unlink of the object a failed; a is still there and the caches are full.
C33_Witness ==
    \E t \in Threads :
        /\ Returned(t, "Unlink")
        /\ cb[t].gFail
        /\ cb[t].ret = -EIO
        /\ kA \in DOMAIN store
        /\ listCache # Nil /\ statfsCache # Nil
        /\ DOMAIN openFiles # {}

(***************************************************************************)
(* SpecDirty: two worker threads write, truncate and flush one handle.     *)
(* The adapter starts after Create(a) and a Write on handle 1 have         *)
(* returned; the handle is never released.                                 *)
(***************************************************************************)
InitDirtyHandle ==
    \E S \in {{}, {kA}} : InitDirty(Bucket(S), kA, <<7>>, HandleCalls, TRUE)

NextDirty ==
    \E t \in Threads :
        \/ \E buff \in {<<8>>, <<8, 9>>}, ofst \in {0, 1} : Write(t, pA, buff, ofst, 1)
        \/ WriteOpen(t)
        \/ WriteFile(t)
        \/ WriteSize(t)
        \/ WriteClose(t)
        \/ Truncate(t, pA, 0, 1)
        \/ TruncFile(t)
        \/ TruncSize(t)
        \/ Flush(t, pA, 1)
        \/ FlushUpload(t)
        \/ FlushRead(t)
        \/ FlushPut(t)
        \/ FlushClose(t)
        \/ FlushClear(t)
        \/ InvalidateCaches(t)

SpecDirty == InitDirtyHandle /\ [][NextDirty]_vars

\* A Write or a Truncate on handle h is in progress
Writing(h) ==
    \E t \in Threads :
        /\ cb[t].op \in {"Write", "Truncate"}
        /\ cb[t].fh = h
        /\ cb[t].pc \notin {"idle", "done"}

\* C34: a handle on which writes have completed is clean only if the last
\* successful upload held the effect of all of them, that is, the object at
\* its path is its staging file; a write that completes while an upload is
\* in flight leaves the handle dirty.  (In SpecDirty every upload is of
\* handle 1 and a write on it has completed from the start.)
C34_CleanMeansUploaded ==
    \A h \in DOMAIN openFiles :
        (~openFiles[h].Dirty /\ ~Writing(h)) =>
            /\ openFiles[h].Path \in DOMAIN store
            /\ store[openFiles[h].Path] = tempFiles[h]

\* The callback of t has returned and a put, delete or copy it issued
\* succeeded
ReturnedMutator(t) == cb[t].pc = "done" /\ cb[t].gMutVer > 0

\* C35: a callback that has modified the store has emptied the listing
\* and the capacity cache when it returns, whatever it returns (one worker
\* thread: the caches are as the callback left them)
C35_MutatorsEmptyCaches ==
    \A t \in Threads :
        ReturnedMutator(t) => listCache = Nil /\ statfsCache = Nil

(***************************************************************************)
(* SpecFresh: one worker thread creates and opens handles on one path,     *)
(* writes, truncates and releases them and looks the path up, on buckets   *)
(* with and without the path, with the listing cache empty or filled, and  *)
(* with or without a dirty handle open from the start.                     *)
(***************************************************************************)
InitFresh ==
    \/ \E S \in {{}, {kA}, {kAm}, {kAx}, {kB}, {pA}} :    \* pA: the one key is "/a"
          \/ InitWith(Bucket(S), SeqCalls, TRUE)
          \/ InitWarm(Bucket(S), <<>>, <<>>, <<>>, SeqCalls, TRUE)
    \/ \E path \in {kA, kB} : InitDirty(Bucket({}), path, <<7>>, SeqCalls, TRUE)

NextFresh ==
    \/ Tick
    \/ Getattr(1, pA)
    \/ GetListObjectsCheck(1)
    \/ GetListObjectsFetch(1)
    \/ GetListObjectsStore(1)
    \/ Create(1, pA)
    \/ OpenWrite(1, pA)
    \/ OpenGet(1)
    \/ \E fh \in Allocated : Write(1, pA, <<7>>, 0, fh)
    \/ WriteOpen(1)
    \/ WriteFile(1)
    \/ WriteSize(1)
    \/ WriteClose(1)
    \/ \E fh \in Allocated : Truncate(1, pA, 0, fh)
    \/ TruncFile(1)
    \/ TruncSize(1)
    \/ \E fh \in Allocated : Release(1, pA, fh)
    \/ ReleaseFlush(1)
    \/ FlushUpload(1)
    \/ FlushRead(1)
    \/ FlushPut(1)
    \/ FlushClose(1)
    \/ FlushClear(1)
    \/ InvalidateCaches(1)
    \/ ReleaseRemove(1)
    \/ ReleaseDelete(1)

SpecFresh == InitFresh /\ [][NextFresh]_vars

\* C36: a handle that was not written or truncated is not uploaded.  A
\* Release that directly follows the Create or the Open for writing that
\* returned its handle issues no store call and leaves the bucket as it
\* was; and when a Getattr of the path that was created or opened follows
\* the Release, and the path did not exist before the Create or Open (the
\* bucket then held nothing for it and no other handle was open on it), the
\* Getattr reports ENOENT.
C36_UnwrittenHandleNotUploaded ==
    \A t \in Threads :
        /\ (cb[t].pc = "done" /\ ReleasedFresh(cb[t]))
              => /\ cb[t].ret = 0
                 /\ cb[t].gCalls = 0
                 /\ store = cb[t].gPre
        /\ (/\ Returned(t, "Getattr")
            /\ cb[t].gPrev.fresh.op \in {"Create", "Open"}
            /\ cb[t].gPrev.fresh.path = cb[t].path
            /\ cb[t].gPrev.fresh.absent)
              => cb[t].ret = -ENOENT

\* C36 witness: on a bucket that holds b only, an Open for writing of "/a",
\* the Release of its handle and Getattr("/a") have returned; the bucket
\* still holds b only, no handle and no staging file are left and Getattr
\* reported ENOENT.
C36_Witness ==
    \E t \in Threads :
        /\ Returned(t, "Getattr")
        /\ cb[t].gPrev.fresh.op = "Open"
        /\ cb[t].gPrev.fresh.path = kA
        /\ cb[t].gPrev.fresh.absent
        /\ cb[t].path = kA
        /\ cb[t].ret = -ENOENT
        /\ DOMAIN store = {kB}
        /\ DOMAIN openFiles = {}
        /\ DOMAIN tempFiles = {}

(***************************************************************************)
(* SpecLive: two worker threads run callbacks that take fs.mu, on one path *)
(* and one handle number.  Every store call and staging-file operation     *)
(* returns and a goroutine that can run does run: each thread's started    *)
(* callback takes its next step (weak fairness per thread; the number of   *)
(* callbacks is bounded, so a thread waiting for the lock is not overtaken *)
(* for ever).                                                              *)
(***************************************************************************)
InitLive ==
    \E S \in {{}, {kA}} :
        \/ InitWith(Bucket(S), HandleCalls, FALSE)
        \/ InitDirty(Bucket(S), kA, <<7>>, HandleCalls, FALSE)

\* The next step of the callback that t has started
Continue(t) ==
    \/ OpenGet(t)
    \/ WriteOpen(t)
    \/ WriteFile(t)
    \/ WriteSize(t)
    \/ WriteClose(t)
    \/ TruncFile(t)
    \/ TruncSize(t)
    \/ FlushUpload(t)
    \/ FlushRead(t)
    \/ FlushPut(t)
    \/ FlushClose(t)
    \/ FlushClear(t)
    \/ InvalidateCaches(t)
    \/ ReleaseFlush(t)
    \/ ReleaseRemove(t)
    \/ ReleaseDelete(t)
    \/ GetListObjectsCheck(t)
    \/ GetListObjectsFetch(t)
    \/ GetListObjectsStore(t)

NextLive ==
    \E t \in Threads :
        \/ Getattr(t, pA)
        \/ Create(t, pA)
        \/ OpenWrite(t, pA)
        \/ Write(t, pA, <<8>>, 0, 1)
        \/ Truncate(t, pA, 0, 1)
        \/ Flush(t, pA, 1)
        \/ Release(t, pA, 1)
        \/ Continue(t)

SpecLive == InitLive /\ [][NextLive]_vars /\ \A t \in Threads : WF_vars(Continue(t))

\* The callback of t has been called and has not returned
Running(t) == cb[t].pc \notin {"idle", "done"}

\* C37 (deadlock freedom): every callback that has been called returns and
\* the lock, once taken, is released; a thread that is in no callback holds
\* no lock; and a thread that holds the lock is at the one step that runs
\* under it (the download of an Open for writing), never at a step that
\* takes the lock again.
C37_CallbacksReturnLockFree ==
    /\ \A t \in Threads : Running(t) ~> ~Running(t)
    /\ \A t \in Threads : HoldsLock(t) ~> (mu.writer = 0 /\ mu.readers = {})
    /\ [](\A t \in Threads : ~Running(t) => ~HoldsLock(t))
    /\ [](\A t \in Threads : HoldsLock(t) => cb[t].pc = "open_get")

\* Two callbacks are in progress at once: one holds the lock in an Open for
\* writing while a Release of handle 1 waits for it
C37_Witness ==
    /\ cb[1].pc = "open_get" /\ mu.writer = 1
    /\ cb[2].op = "Release" /\ cb[2].pc = "rel_delete"

(***************************************************************************)
(* SpecPath: one worker thread unlinks, removes and renames the path of a  *)
(* dirty handle and flushes the handle under either path.  The adapter     *)
(* starts after Create(a) and a Write on handle 1 have returned.           *)
(***************************************************************************)
InitPath ==
    \E S \in SUBSET {kA, kAm, kAx, kB} : InitDirty(Tagged(S), kA, <<7>>, SeqCalls, TRUE)

NextPath ==
    \/ Unlink(1, pA)
    \/ Rmdir(1, pA)
    \/ RmdirDelete(1)
    \/ Rename(1, pA, pB)
    \/ RenameCopy(1)
    \/ RenameDelete(1)
    \/ RenameFileCopy(1)
    \/ RenameFileDelete(1)
    \/ \E p \in {pA, pB} : Flush(1, p, 1)
    \/ FlushUpload(1)
    \/ FlushRead(1)
    \/ FlushPut(1)
    \/ FlushClose(1)
    \/ FlushClear(1)
    \/ InvalidateCaches(1)

SpecPath == InitPath /\ [][NextPath]_vars

\* C38: the path of handle 1, created on "a", stays "a"; an Unlink, Rmdir or
\* Rename that has returned, with whatever result, has left the open-handle
\* table as it was; and a Flush of the dirty handle that returned success
\* has put the staging file at "a" and changed no other key, whatever path
\* it was called with and whether or not "a" was in the bucket.
C38_FlushWritesRecordedPath ==
    /\ 1 \in DOMAIN openFiles
    /\ openFiles[1].Path = kA
    /\ \A t \in Threads :
         /\ (cb[t].pc = "done" /\ cb[t].op \in {"Unlink", "Rmdir", "Rename"})
               => SameHandles(t)
         /\ (Returned(t, "Flush") /\ WasDirty(t) /\ cb[t].ret = 0)
               => store = PutObject(cb[t].gPre, kA, tempFiles[1])

\* "a" has been renamed to "b" and the Flush that followed, called with
\* path "/b", has written "a" again
C38_Witness ==
    \E t \in Threads :
        /\ Returned(t, "Flush")
        /\ cb[t].path = kB
        /\ cb[t].ret = 0
        /\ cb[t].gPrev.op = "Rename" /\ cb[t].gPrev.ret = 0
        /\ kA \notin DOMAIN cb[t].gPre
        /\ kB \in DOMAIN cb[t].gPre
        /\ kA \in DOMAIN store /\ store[kA] = <<7>>
        /\ store[kB] = cb[t].gPre[kB]

\* The listing fetch of the callback of t failed and the callback has
\* returned
FetchFailed(t) ==
    /\ cb[t].pc = "done"
    /\ cb[t].op \in {"Getattr", "Readdir"}
    /\ cb[t].gListed
    /\ cb[t].gFail

\* C39: a callback whose listing fetch failed has left the listing cache
\* and its timestamp (and the capacity cache) as they were when it started,
\* and has returned the error (-ENOENT at the callback), also when the
\* expired cached listing holds the path (one worker thread: the caches are
\* as the callback left them).
C39_FailedFetchKeepsCache ==
    \A t \in Threads :
        FetchFailed(t) => SameCaches(t) /\ cb[t].ret = -ENOENT

\* A Getattr("a") failed to list while the expired cached listing, still in
\* place, and the bucket both hold "a"
C39_Witness ==
    \E t \in Threads :
        /\ FetchFailed(t)
        /\ cb[t].path = kA
        /\ listCache # Nil
        /\ GetattrResolve(listCache, kA).ret = 0
        /\ listCacheTime = StartTime
        /\ now - listCacheTime >= ListCacheTTL
        /\ kA \in DOMAIN store

====
